---- MODULE Spec2Model ----
(***************************************************************************)
(* Round scheduling of the petanque tournament manager:                    *)
(* src/src/petanque_manager/core/scheduler.py and core/models.py.          *)
(*                                                                         *)
(* Players are records [id, roles]; a match is a record with the fields of *)
(* models.Match that the scheduler reads; a tracker is the list of matches *)
(* of ConstraintTracker.matches.  Scores are kept in half points           *)
(* (ScoreUnit = 2 units per point) because one penalty weight is 1.5.      *)
(***************************************************************************)
EXTENDS Integers, Sequences, FiniteSets, TLC

VARIABLES
    mode,       \* TournamentScheduler.mode
    players,    \* the roster handed to the generation calls (list of Player)
    rounds,     \* the rounds returned so far, kept by the caller
    tracker,    \* TournamentScheduler.tracker.matches (the live tracker)
    pc,         \* "idle", or "attempts" inside generate_round's attempt loop
    loop,       \* locals of generate_round's attempt loop
    ret,        \* what the last finished call returned (or raised)
    log,        \* one entry per finished generation call, oldest first
    pin,        \* input of the pure function / constructor being applied
    pout,       \* its result
    rng         \* the generator of the random module, once it was seeded

vars == <<mode, players, rounds, tracker, pc, loop, ret, log, pin, pout, rng>>

\* Absent values: every variable holds records, so that values compare.
None == [none |-> TRUE]

\* ------------------------------------------------------------------ bounds
MaxPlayers == 30      \* player counts tried on the distribution solver
MaxTeamLen == 4       \* longest team list handed to the Match constructor
MaxRoster == 8        \* largest roster handed to the backtracking scheduler
MaxRounds == 5        \* generation calls per tournament
MaxCalls == 2         \* generation calls where the shuffling scheduler takes part
MaxAttempts == 2      \* largest attempts argument of generate_round
MaxHistory == 3       \* add_match calls on one ConstraintTracker
MaxMatches == 2       \* matches of the round whose scores are entered
MaxPool == 4          \* players of the roster a team is formed from

\* ------------------------------------------------------------ enumerations
TRIPLETTE == "Triplette"
DOUBLETTE == "Doublette"
HYBRID == "Hybride (3v2)"
TournamentMode == {TRIPLETTE, DOUBLETTE}
MatchFormat == {TRIPLETTE, DOUBLETTE, HYBRID}

TIREUR == "Tireur"
POINTEUR == "Pointeur"
MILIEU == "Milieu"
PlayerRole == {TIREUR, POINTEUR, MILIEU}

\* ------------------------------------------------------- terrain labels
\* get_terrain_label with the two letters taken from index itself instead
\* of index - 26.
MutGetTerrainLabelNotAdjusted(index) ==
    IF index < 0 \/ index >= 702 THEN <<>>
    ELSE IF index < 26 THEN <<index>>
    ELSE <<index \div 26, index % 26>>

\* get_terrain_label(index): the label as its list of letters, a letter
\* being its offset from "A" (0 = A, 25 = Z); <<>> stands for the error.
get_terrain_label(index) ==
    IF index < 0 \/ index >= 702 THEN <<>>
    ELSE IF index < 26 THEN <<index>>
    ELSE <<(index - 26) \div 26, (index - 26) % 26>>

\* generate_terrain_labels(count): the list of the first count labels, or
\* the error for count < 1 and for count > 702.
generate_terrain_labels(count) ==
    IF count < 1 \/ count > 702 THEN [ok |-> FALSE]
    ELSE LET singles == [i \in 1..(IF count < 26 THEN count ELSE 26) |-> <<i - 1>>]
             doubles == IF count > 26
                        THEN [i \in 1..(count - 26) |-> <<(i - 1) \div 26, (i - 1) % 26>>]
                        ELSE <<>>
         IN  [ok |-> TRUE, labels |-> singles \o doubles]

\* --------------------------------------------------- distribution solver
\* Players seated by nb_3v3 3v3 matches, nb_2v2 2v2 matches, nb_3v2 hybrids.
PlayersUsed(nb_3v3, nb_2v2, nb_3v2) == nb_3v3 * 6 + nb_2v2 * 4 + nb_3v2 * 5

\* The tie-break of the loop body when bench = best_bench: TRUE when the
\* candidate replaces the best solution so far.
MutPrefersNoTieBreak(md, cand, old) == FALSE

Prefers(md, cand, old) ==
    IF md = TRIPLETTE
    THEN \/ cand[1] > old[1]
         \/ cand[1] = old[1] /\ cand[3] < old[3]
    ELSE \/ cand[2] > old[2]
         \/ cand[2] = old[2] /\ cand[3] < old[3]

\* One iteration of the innermost loop body on the state (solution, bench).
DistStep(n, md, cand, st) ==
    LET bench == n - PlayersUsed(cand[1], cand[2], cand[3]) IN
    IF bench < 0 THEN st
    ELSE IF bench < st.best_bench
         THEN [best_solution |-> cand, best_bench |-> bench]
         ELSE IF bench = st.best_bench /\ Prefers(md, cand, st.best_solution)
              THEN [best_solution |-> cand, best_bench |-> st.best_bench]
              ELSE st

\* for nb_3v2 in range(max_3v2 + 1): the innermost loop from nb_3v2 on.
RECURSIVE Loop3v2(_, _, _, _, _, _)
Loop3v2(n, md, nb_3v3, nb_2v2, nb_3v2, st) ==
    \* best_bench is never negative: the test has st computed before the
    \* next iteration is entered
    IF nb_3v2 > n \div 5 \/ st.best_bench < 0 THEN st
    ELSE Loop3v2(n, md, nb_3v3, nb_2v2, nb_3v2 + 1,
                 DistStep(n, md, <<nb_3v3, nb_2v2, nb_3v2>>, st))

\* for nb_2v2 in range(max_2v2 + 1): the middle loop from nb_2v2 on.
RECURSIVE Loop2v2(_, _, _, _, _)
Loop2v2(n, md, nb_3v3, nb_2v2, st) ==
    IF nb_2v2 > n \div 4 \/ st.best_bench < 0 THEN st
    ELSE Loop2v2(n, md, nb_3v3, nb_2v2 + 1,
                 Loop3v2(n, md, nb_3v3, nb_2v2, 0, st))

\* for nb_3v3 in range(max_3v3 + 1): the outer loop from nb_3v3 on.
RECURSIVE Loop3v3(_, _, _, _)
Loop3v3(n, md, nb_3v3, st) ==
    IF nb_3v3 > n \div 6 \/ st.best_bench < 0 THEN st
    ELSE Loop3v3(n, md, nb_3v3 + 1, Loop2v2(n, md, nb_3v3, 0, st))

find_optimal_match_distribution(player_count, md) ==
    IF player_count < 4 THEN <<0, 0, 0>>
    ELSE Loop3v3(player_count, md, 0,
                 [best_solution |-> <<0, 0, 0>>,
                  best_bench |-> player_count]).best_solution

\* ------------------------------------------------------------ models.Match
\* len(v), len(set(v)) of a list.
SeqSet(v) == {v[i] : i \in 1..Len(v)}

\* Field(..., ge=0) of round_index, Field(min_length=1, max_length=10) of
\* terrain_label, Field(min_length=2, max_length=3) of the two team lists.
FieldConstraintsOk(round_index, terrain_label, team_a, team_b) ==
    /\ round_index >= 0
    /\ Len(terrain_label) >= 1 /\ Len(terrain_label) <= 10
    /\ Len(team_a) >= 2 /\ Len(team_a) <= 3
    /\ Len(team_b) >= 2 /\ Len(team_b) <= 3

\* Match.validate_team_size: TRUE when the validator raises for the list v.
validate_team_size_raises(v) ==
    \/ Len(v) < 2 \/ Len(v) > 3
    \/ Cardinality(SeqSet(v)) # Len(v)

\* (mutant: the check that no player plays against themselves is missing)
MutPostInitNoSelfPlayCheck(format, team_a, team_b) ==
    LET size_a == Len(team_a)
        size_b == Len(team_b)
    IN  \/ format = TRIPLETTE /\ (size_a # 3 \/ size_b # 3)
        \/ format = DOUBLETTE /\ (size_a # 2 \/ size_b # 2)
        \/ format = HYBRID /\ ~((size_a = 3 /\ size_b = 2) \/ (size_a = 2 /\ size_b = 3))

\* Match.model_post_init: TRUE when it raises.
model_post_init_raises(format, team_a, team_b) ==
    LET size_a == Len(team_a)
        size_b == Len(team_b)
        all_players == SeqSet(team_a \o team_b)
    IN  \/ format = TRIPLETTE /\ (size_a # 3 \/ size_b # 3)
        \/ format = DOUBLETTE /\ (size_a # 2 \/ size_b # 2)
        \/ format = HYBRID /\ ~((size_a = 3 /\ size_b = 2) \/ (size_a = 2 /\ size_b = 3))
        \/ Cardinality(all_players) # Len(team_a) + Len(team_b)

\* Match(round_index=..., terrain_label=..., format=..., team_a_player_ids=...,
\* team_b_player_ids=...): the object, or the validation error.
NewMatch(round_index, terrain_label, format, team_a, team_b) ==
    IF \/ ~FieldConstraintsOk(round_index, terrain_label, team_a, team_b)
       \/ validate_team_size_raises(team_a)
       \/ validate_team_size_raises(team_b)
       \/ model_post_init_raises(format, team_a, team_b)
    THEN [ok |-> FALSE]
    ELSE [ok |-> TRUE,
          match |-> [round_index |-> round_index,
                     terrain_label |-> terrain_label,
                     format |-> format,
                     team_a_player_ids |-> team_a,
                     team_b_player_ids |-> team_b]]

\* Match.all_player_ids
all_player_ids(m) == m.team_a_player_ids \o m.team_b_player_ids

\* ---------------------------------------------------- ConstraintTracker
\* A tracker is its list of matches (ConstraintTracker.matches).

\* add_match that leaves out a match the tracker already holds.
MutAddMatchOnce(tr, match) ==
    IF match \in SeqSet(tr) THEN tr ELSE Append(tr, match)

\* ConstraintTracker.add_match
add_match(tr, match) == Append(tr, match)

\* partner_counts[(min, max)]: one count per team of a match that holds both.
partner_counts(tr, pid1, pid2) ==
    IF pid1 = pid2 THEN 0
    ELSE
    Cardinality({i \in 1..Len(tr) : {pid1, pid2} \subseteq SeqSet(tr[i].team_a_player_ids)})
    + Cardinality({i \in 1..Len(tr) : {pid1, pid2} \subseteq SeqSet(tr[i].team_b_player_ids)})

\* opponent_counts[(min, max)]: one count per match with the two on
\* opposite teams.
opponent_counts(tr, pid1, pid2) ==
    Cardinality({i \in 1..Len(tr) :
        \/ pid1 \in SeqSet(tr[i].team_a_player_ids) /\ pid2 \in SeqSet(tr[i].team_b_player_ids)
        \/ pid2 \in SeqSet(tr[i].team_a_player_ids) /\ pid1 \in SeqSet(tr[i].team_b_player_ids)})

\* The partner count read as membership: 1 for any number of partnerships.
MutGetPartnerCountMembership(tr, pid1, pid2) ==
    IF partner_counts(tr, pid1, pid2) > 0 THEN 1 ELSE 0

get_partner_count(tr, pid1, pid2) == partner_counts(tr, pid1, pid2)

get_opponent_count(tr, pid1, pid2) == opponent_counts(tr, pid1, pid2)

\* ConstraintTracker.partners.get(pid, set())
partners(tr, pid) ==
    UNION {UNION {IF pid \in SeqSet(team) THEN SeqSet(team) \ {pid} ELSE {} :
                  team \in {tr[i].team_a_player_ids, tr[i].team_b_player_ids}} :
           i \in 1..Len(tr)}

\* ConstraintTracker.opponents.get(pid, set())
opponents(tr, pid) ==
    UNION {(IF pid \in SeqSet(tr[i].team_a_player_ids)
            THEN SeqSet(tr[i].team_b_player_ids) ELSE {})
           \cup (IF pid \in SeqSet(tr[i].team_b_player_ids)
                 THEN SeqSet(tr[i].team_a_player_ids) ELSE {}) :
           i \in 1..Len(tr)}

\* ConstraintTracker.terrains.get(pid, set())
terrains(tr, pid) ==
    {tr[i].terrain_label : i \in {j \in 1..Len(tr) : pid \in SeqSet(all_player_ids(tr[j]))}}

\* The pairs (i, j), i < j, of positions of a list: "for i, pid in
\* enumerate(team): for other in team[i + 1:]".
PairsOf(team) == {ij \in (1..Len(team)) \X (1..Len(team)) : ij[1] < ij[2]}

\* Sum of f[x] over the elements x of the finite set S, for a function f.
RECURSIVE SumOn(_, _)
SumOn(f, S) ==
    IF S = {} THEN 0
    ELSE LET x == CHOOSE y \in S : TRUE IN f[x] + SumOn(f, S \ {x})

Sum(f) == SumOn(f, DOMAIN f)

\* ConstraintTracker.fallback_formats.get(pid, 0)
fallback_formats(tr, md, pid) ==
    Cardinality({i \in 1..Len(tr) :
        /\ \/ md = TRIPLETTE /\ tr[i].format = DOUBLETTE
           \/ md = DOUBLETTE /\ tr[i].format = TRIPLETTE
        /\ pid \in SeqSet(all_player_ids(tr[i]))})

\* ConfigScoringMatchs.  Scores are counted in half points: a score s of
\* the program is the integer 2 * s here, the fallback weight 1.5 is 3.
repeated_partners_penalty == 10
repeated_opponents_penalty == 5
repeated_terrains_penalty == 2
fallback_format_penalty_per_player_x2 == 3

\* is_fallback of score_match and of the fallback_formats property.
\* The fallback test with the modes swapped.
MutIsFallbackSwapped(md, match_format) ==
    \/ md = TRIPLETTE /\ match_format = TRIPLETTE
    \/ md = DOUBLETTE /\ match_format = DOUBLETTE

is_fallback(md, match_format) ==
    \/ md = TRIPLETTE /\ match_format = DOUBLETTE
    \/ md = DOUBLETTE /\ match_format = TRIPLETTE

\* ConstraintTracker.score_match, in half points.
score_match(tr, md, team_a, team_b, terrain, match_format) ==
    LET partner_part(team) ==
            Sum([ij \in PairsOf(team) |->
                    LET count == get_partner_count(tr, team[ij[1]], team[ij[2]]) IN
                    IF count > 0 THEN 2 * repeated_partners_penalty * count * count ELSE 0])
        opponent_part ==
            Sum([ab \in (1..Len(team_a)) \X (1..Len(team_b)) |->
                    LET count == get_opponent_count(tr, team_a[ab[1]], team_b[ab[2]]) IN
                    IF count > 0 THEN 2 * repeated_opponents_penalty * count * count ELSE 0])
        both == team_a \o team_b
        terrain_part ==
            Sum([i \in 1..Len(both) |->
                    IF terrain \in terrains(tr, both[i])
                    THEN 2 * repeated_terrains_penalty ELSE 0])
        fallback_part ==
            IF is_fallback(md, match_format)
            THEN fallback_format_penalty_per_player_x2 * Len(both) ELSE 0
    IN  partner_part(team_a) + partner_part(team_b) + opponent_part
        + terrain_part + fallback_part

\* TournamentScheduler._score_matches_with_tracker, in half points.
score_matches_with_tracker(matches, tr, md) ==
    Sum([i \in 1..Len(matches) |-> score_match(tr, md, matches[i].team_a_player_ids,
                               matches[i].team_b_player_ids,
                               matches[i].terrain_label, matches[i].format)])

\* TournamentScheduler._generate_quality_report against the live tracker tr.
generate_quality_report(tr, md, matches) ==
    LET teamPairs(team) ==
            Cardinality({ij \in PairsOf(team) : team[ij[2]] \in partners(tr, team[ij[1]])})
        is_fb(m) == \/ m.format = HYBRID
                    \/ md = TRIPLETTE /\ m.format = DOUBLETTE
                    \/ md = DOUBLETTE /\ m.format = TRIPLETTE
    IN  [repeated_partners |->
            Sum([i \in 1..Len(matches) |-> teamPairs(matches[i].team_a_player_ids)
                           + teamPairs(matches[i].team_b_player_ids)]),
         repeated_opponents |->
            Sum([i \in 1..Len(matches) |->
                    Cardinality({ab \in (1..Len(matches[i].team_a_player_ids))
                                        \X (1..Len(matches[i].team_b_player_ids)) :
                        matches[i].team_b_player_ids[ab[2]]
                            \in opponents(tr, matches[i].team_a_player_ids[ab[1]])})]),
         repeated_terrains |->
            Sum([i \in 1..Len(matches) |->
                    Cardinality({k \in 1..Len(all_player_ids(matches[i])) :
                        matches[i].terrain_label
                            \in terrains(tr, all_player_ids(matches[i])[k])})]),
         fallback_format_count |->
            Cardinality({i \in 1..Len(matches) : is_fb(matches[i])}),
         total_score |-> score_matches_with_tracker(matches, tr, md)]

\* ScheduleQualityReport.quality_grade (total_score in half points).
quality_grade(report) ==
    IF report.total_score = 0 THEN "A+"
    ELSE IF report.total_score < 2 * 10 THEN "A"
    ELSE IF report.total_score < 2 * 25 THEN "B"
    ELSE IF report.total_score < 2 * 50 THEN "C"
    ELSE IF report.total_score < 2 * 100 THEN "D"
    ELSE "F"

\* ------------------------------------------------------------ team roles
\* sum(1 for p in team if role in p.roles), for a list of players.
HasRole(team, roleset) ==
    Cardinality({i \in 1..Len(team) : team[i].roles \cap roleset # {}})

\* validate_team_roles(team, match_format, mode), team a list of players.
validate_team_roles(team, match_format, md) ==
    IF match_format = TRIPLETTE
    THEN IF Len(team) # 3 THEN FALSE
         ELSE IF md = TRIPLETTE
              THEN /\ HasRole(team, {TIREUR}) >= 1
                   /\ HasRole(team, {POINTEUR}) >= 1
                   /\ HasRole(team, {MILIEU}) >= 1
              ELSE /\ HasRole(team, {TIREUR}) >= 1
                   /\ HasRole(team, {POINTEUR, MILIEU}) >= 2
    ELSE IF Len(team) # 2 THEN FALSE
         ELSE /\ HasRole(team, {TIREUR}) >= 1
              /\ HasRole(team, {POINTEUR, MILIEU}) >= 1

\* Concatenation of the lists f[lo], ..., f[hi] (empty when lo > hi).
RECURSIVE ConcatRange(_, _, _)
ConcatRange(f, lo, hi) ==
    IF lo > hi THEN <<>>
    ELSE IF lo = hi THEN f[lo]
    ELSE ConcatRange(f, lo, (lo + hi) \div 2) \o ConcatRange(f, (lo + hi) \div 2 + 1, hi)

\* itertools.combinations(ids, 2) and combinations(ids, 3), as lists in the
\* order itertools yields them.
Combinations2(ids) ==
    LET n == Len(ids) IN
    ConcatRange([i \in 1..(n - 1) |-> [j \in 1..(n - i) |-> <<ids[i], ids[i + j]>>]],
                1, n - 1)

Combinations3(ids) ==
    LET n == Len(ids) IN
    ConcatRange(
        [i \in 1..(n - 2) |->
            ConcatRange([j \in (i + 1)..(n - 1) |->
                            [k \in 1..(n - j) |-> <<ids[i], ids[j], ids[j + k]>>]],
                        i + 1, n - 1)],
        1, n - 2)

\* [p for p in players if p.id in combo]
TeamPlayers(plist, combo) == SelectSeq(plist, LAMBDA p : p.id \in SeqSet(combo))

\* TournamentScheduler._build_all_valid_teams
build_all_valid_teams(plist, md) ==
    LET player_ids == [i \in 1..Len(plist) |-> plist[i].id] IN
    [Triplette |-> SelectSeq(Combinations3(player_ids),
                      LAMBDA c : validate_team_roles(TeamPlayers(plist, c), TRIPLETTE, md)),
     Doublette |-> SelectSeq(Combinations2(player_ids),
                      LAMBDA c : validate_team_roles(TeamPlayers(plist, c), DOUBLETTE, md))]

\* ------------------------------------------------- backtracking scheduler
\* ConstraintLevel
STRICT == 0
ALLOW_REPEATED_OPPONENTS == 1
ALLOW_REPEATED_PARTNERS == 2

\* The validity check with the partner rule relaxed at every level.
MutValidPartnersAlwaysRelaxed(team_a, team_b, constraint_level, tr) ==
    /\ \A team \in {team_a, team_b} : \A ij \in PairsOf(team) :
          ~(get_partner_count(tr, team[ij[1]], team[ij[2]]) >= 2)
    /\ \A a \in 1..Len(team_a) : \A b \in 1..Len(team_b) :
          LET count == get_opponent_count(tr, team_a[a], team_b[b]) IN
          IF constraint_level < ALLOW_REPEATED_OPPONENTS
          THEN ~(count > 0)
          ELSE ~(count >= 2)

\* The validity check with the opponent rule relaxed at every level.
MutValidOpponentsAlwaysRelaxed(team_a, team_b, constraint_level, tr) ==
    /\ \A team \in {team_a, team_b} : \A ij \in PairsOf(team) :
          LET count == get_partner_count(tr, team[ij[1]], team[ij[2]]) IN
          IF constraint_level < ALLOW_REPEATED_PARTNERS
          THEN ~(count > 0)
          ELSE ~(count >= 2)
    /\ \A a \in 1..Len(team_a) : \A b \in 1..Len(team_b) :
          ~(get_opponent_count(tr, team_a[a], team_b[b]) >= 2)

\* The validity check with no level relaxing anything.
MutValidNeverRelaxed(team_a, team_b, constraint_level, tr) ==
    /\ \A team \in {team_a, team_b} : \A ij \in PairsOf(team) :
          ~(get_partner_count(tr, team[ij[1]], team[ij[2]]) > 0)
    /\ \A a \in 1..Len(team_a) : \A b \in 1..Len(team_b) :
          ~(get_opponent_count(tr, team_a[a], team_b[b]) > 0)

\* The validity check with the strict rules testing "count == 1" in place of
\* "count > 0".
MutValidExactlyOnce(team_a, team_b, constraint_level, tr) ==
    /\ \A team \in {team_a, team_b} : \A ij \in PairsOf(team) :
          LET count == get_partner_count(tr, team[ij[1]], team[ij[2]]) IN
          IF constraint_level < ALLOW_REPEATED_PARTNERS
          THEN ~(count = 1)
          ELSE ~(count >= 2)
    /\ \A a \in 1..Len(team_a) : \A b \in 1..Len(team_b) :
          LET count == get_opponent_count(tr, team_a[a], team_b[b]) IN
          IF constraint_level < ALLOW_REPEATED_OPPONENTS
          THEN ~(count = 1)
          ELSE ~(count >= 2)

\* The validity check without the "count >= 2" bounds of the relaxed rules.
MutValidRelaxedUnbounded(team_a, team_b, constraint_level, tr) ==
    /\ \A team \in {team_a, team_b} : \A ij \in PairsOf(team) :
          LET count == get_partner_count(tr, team[ij[1]], team[ij[2]]) IN
          constraint_level < ALLOW_REPEATED_PARTNERS => ~(count > 0)
    /\ \A a \in 1..Len(team_a) : \A b \in 1..Len(team_b) :
          LET count == get_opponent_count(tr, team_a[a], team_b[b]) IN
          constraint_level < ALLOW_REPEATED_OPPONENTS => ~(count > 0)

\* TournamentScheduler._is_match_valid_with_tracker
is_match_valid_with_tracker(team_a, team_b, constraint_level, tr) ==
    /\ \A team \in {team_a, team_b} : \A ij \in PairsOf(team) :
          LET count == get_partner_count(tr, team[ij[1]], team[ij[2]]) IN
          IF constraint_level < ALLOW_REPEATED_PARTNERS
          THEN ~(count > 0)
          ELSE ~(count >= 2)
    /\ \A a \in 1..Len(team_a) : \A b \in 1..Len(team_b) :
          LET count == get_opponent_count(tr, team_a[a], team_b[b]) IN
          IF constraint_level < ALLOW_REPEATED_OPPONENTS
          THEN ~(count > 0)
          ELSE ~(count >= 2)

\* list.remove(x): the list without its first element equal to x.
RemoveFirst(list, x) ==
    IF \A i \in 1..Len(list) : list[i] # x THEN list
    ELSE LET i == CHOOSE k \in 1..Len(list) :
                      list[k] = x /\ \A j \in 1..(k - 1) : list[j] # x
         IN  SubSeq(list, 1, i - 1) \o SubSeq(list, i + 1, Len(list))

\* list.pop()
Pop(list) == SubSeq(list, 1, Len(list) - 1)

\* _remove_match_from_temp_tracker leaving the match in the tracker.
MutRemoveMatchKeeps(tr, match) == tr

\* _add_match_to_temp_tracker / _remove_match_from_temp_tracker
add_match_to_temp_tracker(tr, match) == add_match(tr, match)

remove_match_from_temp_tracker(tr, match) == RemoveFirst(tr, match)

\* The search state that _backtrack_recursive mutates and undoes
\* (used_players, matches, temp_tracker), with what the call returned:
\* found = FALSE is the return value None, raised = TRUE an exception of
\* the Match constructor.  env holds the arguments that never change:
\* match_requirements, all_valid_teams, round_index, constraint_level.
\* match_index counts from 1 here (from 0 in the program).
RECURSIVE backtrack_recursive(_, _, _)
RECURSIVE LoopTeamsA(_, _, _, _, _, _)
RECURSIVE LoopTeamsB(_, _, _, _, _, _, _)

\* The body of "for team_b in teams_b" without "used_players.update(team_b)".
MutBodyTeamBNotUsed(env, match_index, team_a, team_b, st) ==
    IF ~is_match_valid_with_tracker(team_a, team_b, env.constraint_level, st.temp_tracker)
    THEN st
    ELSE
      LET format_a == env.match_requirements[match_index][1]
          format_b == env.match_requirements[match_index][2]
          match_format == IF format_a = format_b THEN format_a ELSE HYBRID
          made == NewMatch(env.round_index, get_terrain_label(match_index - 1),
                           match_format, team_a, team_b)
      IN  IF ~made.ok
          THEN [st EXCEPT !.found = TRUE, !.raised = TRUE]
          ELSE
            LET r == backtrack_recursive(env, match_index + 1,
                        [st EXCEPT !.matches = Append(@, made.match),
                                   !.temp_tracker =
                                       add_match_to_temp_tracker(@, made.match)])
            IN  IF r.found THEN r
                ELSE [r EXCEPT !.matches = Pop(@),
                               !.temp_tracker =
                                   remove_match_from_temp_tracker(@, made.match)]

\* The body of "for team_b in teams_b".
BodyTeamB(env, match_index, team_a, team_b, st) ==
    IF ~is_match_valid_with_tracker(team_a, team_b, env.constraint_level, st.temp_tracker)
    THEN st
    ELSE
      LET format_a == env.match_requirements[match_index][1]
          format_b == env.match_requirements[match_index][2]
          match_format == IF format_a = format_b THEN format_a ELSE HYBRID
          made == NewMatch(env.round_index, get_terrain_label(match_index - 1),
                           match_format, team_a, team_b)
      IN  IF ~made.ok
          THEN [st EXCEPT !.used_players = @ \cup SeqSet(team_b),
                          !.found = TRUE, !.raised = TRUE]
          ELSE
            LET r == backtrack_recursive(env, match_index + 1,
                        [st EXCEPT !.used_players = @ \cup SeqSet(team_b),
                                   !.matches = Append(@, made.match),
                                   !.temp_tracker =
                                       add_match_to_temp_tracker(@, made.match)])
            IN  IF r.found THEN r
                ELSE [r EXCEPT !.matches = Pop(@),
                               !.temp_tracker =
                                   remove_match_from_temp_tracker(@, made.match),
                               !.used_players = @ \ SeqSet(team_b)]

\* "for team_b in teams_b" over teams_b[lo..hi], left to right, leaving the
\* loop when a solution was returned.
LoopTeamsB(env, match_index, team_a, teams_b, lo, hi, st) ==
    IF lo = hi THEN BodyTeamB(env, match_index, team_a, teams_b[lo], st)
    ELSE LET mid == (lo + hi) \div 2
             st1 == LoopTeamsB(env, match_index, team_a, teams_b, lo, mid, st)
         IN  IF st1.found THEN st1
             ELSE LoopTeamsB(env, match_index, team_a, teams_b, mid + 1, hi, st1)

\* The body of "for team_a in teams_a" without the undo of used_players.
MutBodyTeamANoUndo(env, match_index, team_a, st) ==
    LET format_b == env.match_requirements[match_index][2]
        st1 == [st EXCEPT !.used_players = @ \cup SeqSet(team_a)]
        teams_b == SelectSeq(env.all_valid_teams[format_b],
                       LAMBDA t : SeqSet(t) \cap st1.used_players = {})
    IN  IF teams_b = <<>> THEN st1
        ELSE LoopTeamsB(env, match_index, team_a, teams_b, 1, Len(teams_b), st1)

\* The body of "for team_a in teams_a".
BodyTeamA(env, match_index, team_a, st) ==
    LET format_b == env.match_requirements[match_index][2]
        st1 == [st EXCEPT !.used_players = @ \cup SeqSet(team_a)]
        teams_b == SelectSeq(env.all_valid_teams[format_b],
                       LAMBDA t : SeqSet(t) \cap st1.used_players = {})
        st2 == IF teams_b = <<>> THEN st1
               ELSE LoopTeamsB(env, match_index, team_a, teams_b, 1, Len(teams_b), st1)
    IN  IF st2.found THEN st2
        ELSE [st2 EXCEPT !.used_players = @ \ SeqSet(team_a)]

\* "for team_a in teams_a" over teams_a[lo..hi], left to right.
LoopTeamsA(env, match_index, teams_a, lo, hi, st) ==
    IF lo = hi THEN BodyTeamA(env, match_index, teams_a[lo], st)
    ELSE LET mid == (lo + hi) \div 2
             st1 == LoopTeamsA(env, match_index, teams_a, lo, mid, st)
         IN  IF st1.found THEN st1
             ELSE LoopTeamsA(env, match_index, teams_a, mid + 1, hi, st1)

\* TournamentScheduler._backtrack_recursive
backtrack_recursive(env, match_index, st) ==
    IF match_index > Len(env.match_requirements)
    THEN [st EXCEPT !.found = TRUE, !.result = st.matches]
    ELSE LET format_a == env.match_requirements[match_index][1]
             teams_a == SelectSeq(env.all_valid_teams[format_a],
                            LAMBDA t : SeqSet(t) \cap st.used_players = {})
         IN  IF teams_a = <<>> THEN st
             ELSE LoopTeamsA(env, match_index, teams_a, 1, Len(teams_a), st)

\* The list match_requirements of _backtrack_find_matches.
MatchRequirements(nb_3v3, nb_2v2, nb_3v2) ==
    [i \in 1..nb_3v3 |-> <<TRIPLETTE, TRIPLETTE>>]
    \o [i \in 1..nb_2v2 |-> <<DOUBLETTE, DOUBLETTE>>]
    \o [i \in 1..nb_3v2 |-> <<TRIPLETTE, DOUBLETTE>>]

\* TournamentScheduler._backtrack_find_matches, live the matches of
\* self.tracker: the final search state (found = FALSE for None).
backtrack_find_matches(all_valid_teams, nb_3v3, nb_2v2, nb_3v2, round_index, constraint_level, live) ==
    LET match_requirements == MatchRequirements(nb_3v3, nb_2v2, nb_3v2)
        st0 == [used_players |-> {}, matches |-> <<>>, temp_tracker |-> live,
                found |-> FALSE, raised |-> FALSE, result |-> <<>>]
    IN  IF match_requirements = <<>>
        THEN [st0 EXCEPT !.found = TRUE]
        ELSE backtrack_recursive(
                 [match_requirements |-> match_requirements,
                  all_valid_teams |-> all_valid_teams,
                  round_index |-> round_index,
                  constraint_level |-> constraint_level],
                 1, st0)

\* "for prev_round in previous_rounds: for match in prev_round.matches:
\* tracker.add_match(match)", starting from the tracker tr.
RECURSIVE add_rounds(_, _, _)
add_rounds(tr, previous_rounds, i) ==
    IF i > Len(previous_rounds) THEN tr
    ELSE add_rounds(tr \o previous_rounds[i].matches, previous_rounds, i + 1)

\* Round(index=..., matches=...): index >= 0 is the only constraint.
NewRound(round_index, matches) == [index |-> round_index, matches |-> matches]

\* The levels, most relaxed first.
MutLevelOrderRelaxedFirst ==
    <<ALLOW_REPEATED_PARTNERS, ALLOW_REPEATED_OPPONENTS, STRICT>>

\* The levels generate_round_deterministic tries, in its order.
LevelOrder == <<STRICT, ALLOW_REPEATED_OPPONENTS, ALLOW_REPEATED_PARTNERS>>

\* The quality report computed after the new matches were folded into the
\* live tracker.
MutReportAfterFold(live, matches) == live \o matches

\* The tracker _generate_quality_report reads in generate_round_deterministic:
\* the report is generated before "for match in matches:
\* self.tracker.add_match(match)".
ReportTracker(live, matches) == live

\* "for level in [...]" of generate_round_deterministic from position i on:
\* searched lists the levels whose search ran, with what each returned.
RECURSIVE LevelLoop(_, _, _, _, _, _, _)
LevelLoop(all_valid_teams, dist, round_index, live, md, i, searched) ==
    IF i > Len(LevelOrder)
    THEN [ok |-> FALSE, error |-> "infeasible", searched |-> searched, tracker |-> live]
    ELSE
      LET level == LevelOrder[i]
          found == backtrack_find_matches(all_valid_teams, dist[1], dist[2], dist[3],
                                          round_index, level, live)
          seen == Append(searched, [level |-> level, found |-> found.found])
      IN  IF found.raised
          THEN [ok |-> FALSE, error |-> "match", searched |-> seen, tracker |-> live]
          ELSE IF found.found
          THEN [ok |-> TRUE,
                round |-> NewRound(round_index, found.result),
                report |-> generate_quality_report(ReportTracker(live, found.result),
                                                   md, found.result),
                level |-> level,
                searched |-> seen,
                tracker |-> live \o found.result]
          ELSE LevelLoop(all_valid_teams, dist, round_index, live, md, i + 1, seen)

\* generate_round_deterministic without its test of the player count.
MutDeterministicNoPlayerCheck(plist, round_index, previous_rounds, md) ==
    LevelLoop(build_all_valid_teams(plist, md),
              find_optimal_match_distribution(Len(plist), md),
              round_index, add_rounds(<<>>, previous_rounds, 1), md, 1, <<>>)

\* TournamentScheduler.generate_round_deterministic: what the call returns
\* (ok = FALSE when it raises) and the live tracker it leaves behind.
generate_round_deterministic(plist, round_index, previous_rounds, md) ==
    LET live == add_rounds(<<>>, previous_rounds, 1) IN
    IF Len(plist) < 4
    THEN [ok |-> FALSE, error |-> "too_few", searched |-> <<>>, tracker |-> live]
    ELSE LevelLoop(build_all_valid_teams(plist, md),
                   find_optimal_match_distribution(Len(plist), md),
                   round_index, live, md, 1, <<>>)

\* --------------------------------------------------- shuffling scheduler
\* needed_roles with a second Tireur in place of the Milieu of a full-size
\* team in TRIPLETTE mode.
MutNeededRolesSecondShooter(match_format, md) ==
    IF match_format = TRIPLETTE
    THEN IF md = TRIPLETTE
         THEN <<(<<TIREUR>>), <<POINTEUR>>, <<TIREUR>>>>
         ELSE <<(<<TIREUR>>), <<POINTEUR, MILIEU>>, <<POINTEUR, MILIEU>>>>
    ELSE <<(<<TIREUR>>), <<POINTEUR, MILIEU>>>>

\* needed_roles of _form_team: one list of alternative roles per slot, the
\* alternatives in the order they are tried.
NeededRoles(match_format, md) ==
    IF match_format = TRIPLETTE
    THEN IF md = TRIPLETTE
         THEN <<(<<TIREUR>>), <<POINTEUR>>, <<MILIEU>>>>
         ELSE <<(<<TIREUR>>), <<POINTEUR, MILIEU>>, <<POINTEUR, MILIEU>>>>
    ELSE <<(<<TIREUR>>), <<POINTEUR, MILIEU>>>>

\* The players a slot can take, in roster order: for the first alternative
\* role that has one, the candidates of self._players_by_role[role] that
\* are available and not yet in the team (the shuffle makes any of them
\* come first).
RECURSIVE SlotCandidates(_, _, _, _, _)
SlotCandidates(plist, alternatives, k, available_ids, used_ids) ==
    IF k > Len(alternatives) THEN <<>>
    ELSE LET found == SelectSeq(plist, LAMBDA p : /\ alternatives[k] \in p.roles
                                                  /\ p.id \in available_ids
                                                  /\ p.id \notin used_ids)
         IN  IF found # <<>> THEN [i \in 1..Len(found) |-> found[i].id]
             ELSE SlotCandidates(plist, alternatives, k + 1, available_ids, used_ids)

\* "for needed_role in needed_roles" of _form_team from slot i on: the list
\* of the teams (lists of player ids) the call can return, one entry per
\* way the shuffles can fall, ok = FALSE for None.
RECURSIVE FormTeamFrom(_, _, _, _, _, _)
FormTeamFrom(plist, needed_roles, i, available_ids, team_size, team) ==
    IF i > Len(needed_roles)
    THEN <<IF Len(team) = team_size THEN [ok |-> TRUE, team |-> team]
                                    ELSE [ok |-> FALSE]>>
    ELSE LET candidates == SlotCandidates(plist, needed_roles[i], 1,
                                          available_ids, SeqSet(team))
         IN  IF candidates = <<>> THEN <<[ok |-> FALSE]>>
             ELSE ConcatRange(
                      [k \in 1..Len(candidates) |->
                          FormTeamFrom(plist, needed_roles, i + 1, available_ids,
                                       team_size, Append(team, candidates[k]))],
                      1, Len(candidates))

\* TournamentScheduler._form_team: every result the shuffles allow.
form_team(plist, available_ids, team_size, match_format, md) ==
    FormTeamFrom(plist, NeededRoles(match_format, md), 1, available_ids, team_size, <<>>)

\* One of the three quota loops of _generate_matches_for_round, with count
\* iterations left, on the locals g = (matches, available_players): the
\* list of the locals it can end with.  q names the loop: the two team
\* formats, the two team sizes and the format of the match.
RECURSIVE QuotaLoop(_, _, _, _, _, _)
QuotaLoop(plist, md, round_index, q, count, g) ==
    IF count = 0 \/ g.raised THEN <<g>>
    ELSE IF Cardinality(g.available) < q.size_a + q.size_b THEN <<g>>
    ELSE
      LET teams_a == form_team(plist, g.available, q.size_a, q.format_a, md)
          with_a(ta) ==
              IF ~ta.ok THEN <<g>>
              ELSE
                LET teams_b == form_team(plist, g.available \ SeqSet(ta.team),
                                         q.size_b, q.format_b, md)
                    with_b(tb) ==
                        IF ~tb.ok THEN <<g>>
                        ELSE
                          \* terrain_index is len(matches) at every iteration
                          LET made == NewMatch(round_index,
                                               get_terrain_label(Len(g.matches)),
                                               q.format, ta.team, tb.team)
                          IN  IF ~made.ok THEN <<[g EXCEPT !.raised = TRUE]>>
                              ELSE QuotaLoop(plist, md, round_index, q, count - 1,
                                       [g EXCEPT !.matches = Append(@, made.match),
                                                 !.available = (@ \ SeqSet(ta.team))
                                                                   \ SeqSet(tb.team)])
                IN  ConcatRange([k \in 1..Len(teams_b) |-> with_b(teams_b[k])],
                                1, Len(teams_b))
      IN  ConcatRange([k \in 1..Len(teams_a) |-> with_a(teams_a[k])], 1, Len(teams_a))

Quota3v3 == [format_a |-> TRIPLETTE, size_a |-> 3, format_b |-> TRIPLETTE, size_b |-> 3,
             format |-> TRIPLETTE]
Quota2v2 == [format_a |-> DOUBLETTE, size_a |-> 2, format_b |-> DOUBLETTE, size_b |-> 2,
             format |-> DOUBLETTE]
Quota3v2 == [format_a |-> TRIPLETTE, size_a |-> 3, format_b |-> DOUBLETTE, size_b |-> 2,
             format |-> HYBRID]

\* The final checks without the test of the number of matches.
MutFinalChecksAcceptPartial(g, expected_matches) ==
    IF g.raised \/ g.matches = <<>>
    THEN [ok |-> FALSE]
    ELSE [ok |-> TRUE, matches |-> g.matches]

\* The final checks of _generate_matches_for_round on the locals g: the
\* list returned, or ok = FALSE for a ValueError.
FinalChecks(g, expected_matches) ==
    IF g.raised \/ g.matches = <<>>
    THEN [ok |-> FALSE]
    ELSE IF Len(g.matches) # expected_matches
    THEN [ok |-> FALSE]
    ELSE [ok |-> TRUE, matches |-> g.matches]

\* TournamentScheduler._generate_matches_for_round: the list of the results
\* the shuffles allow.  (The tracker argument only receives the matches.)
generate_matches_for_round(plist, round_index, md) ==
    LET dist == find_optimal_match_distribution(Len(plist), md)
        expected_matches == dist[1] + dist[2] + dist[3]
        g0 == [matches |-> <<>>, raised |-> FALSE,
               available |-> {plist[i].id : i \in 1..Len(plist)}]
        after_3v3 == QuotaLoop(plist, md, round_index, Quota3v3, dist[1], g0)
        after_2v2 == ConcatRange(
                         [k \in 1..Len(after_3v3) |->
                             QuotaLoop(plist, md, round_index, Quota2v2, dist[2],
                                       after_3v3[k])],
                         1, Len(after_3v3))
        after_3v2 == ConcatRange(
                         [k \in 1..Len(after_2v2) |->
                             QuotaLoop(plist, md, round_index, Quota3v2, dist[3],
                                       after_2v2[k])],
                         1, Len(after_2v2))
    IN  [k \in 1..Len(after_3v2) |-> FinalChecks(after_3v2[k], expected_matches)]

\* --------------------------------------------------------------- rosters
\* Players 1..n, each eligible for all three roles.
AllRoles(n) == [i \in 1..n |-> [id |-> i, roles |-> PlayerRole]]

\* Players 1..n with exactly one role each: Tireur, Pointeur, Milieu, ...
ExclusiveRoles(n) ==
    [i \in 1..n |-> [id |-> i,
                      roles |-> IF i % 3 = 1 THEN {TIREUR}
                                ELSE IF i % 3 = 2 THEN {POINTEUR} ELSE {MILIEU}]]

\* Players 1..n, the odd ones Tireur only, the even ones Pointeur or Milieu.
ShooterOrPlacer(n) ==
    [i \in 1..n |-> [id |-> i,
                      roles |-> IF i % 2 = 1 THEN {TIREUR} ELSE {POINTEUR, MILIEU}]]

\* Players 1..n, none of them a Tireur.
NoShooter(n) == [i \in 1..n |-> [id |-> i, roles |-> {POINTEUR}]]

\* ------------------------------- specification: deterministic scheduling
\* A page calls scheduler.generate_round_deterministic(players,
\* round_index = number of stored rounds, previous_rounds = stored rounds)
\* and stores the round it gets back.
GenerateRoundDeterministicWith(round_index, previous_rounds) ==
    /\ pc = "idle"
    /\ LET r == generate_round_deterministic(players, round_index, previous_rounds, mode) IN
       /\ tracker' = r.tracker
       /\ ret' = [fn |-> "generate_round_deterministic",
                  round_index |-> round_index,
                  prior |-> add_rounds(<<>>, previous_rounds, 1),
                  res |-> r]
       /\ rounds' = IF r.ok THEN Append(rounds, r.round) ELSE rounds
       /\ log' = Append(log, [fn |-> "generate_round_deterministic",
                              ok |-> r.ok,
                              level |-> IF r.ok THEN r.level ELSE -1,
                              matches |-> IF r.ok THEN Len(r.round.matches) ELSE 0])
    /\ UNCHANGED <<mode, players, pc, loop, pin, pout, rng>>

GenerateRoundDeterministic ==
    /\ Len(log) < MaxRounds
    /\ GenerateRoundDeterministicWith(Len(rounds), rounds)

DetRosters ==
    {AllRoles(3), NoShooter(4)}
    \cup {AllRoles(n) : n \in 4..MaxRoster}
    \cup {ExclusiveRoles(n) : n \in 4..MaxRoster}
    \cup {ShooterOrPlacer(n) : n \in 4..MaxRoster}

InitDet ==
    /\ mode \in TournamentMode
    /\ players \in DetRosters
    /\ rounds = <<>>
    /\ tracker = <<>>
    /\ pc = "idle"
    /\ loop = None
    /\ rng = None
    /\ ret = None
    /\ log = <<>>
    /\ pin = None
    /\ pout = None

NextDet == GenerateRoundDeterministic

SpecDet == InitDet /\ [][NextDet]_vars

\* ------------------------------------------------ properties: backtracking
\* The last finished call was a generate_round_deterministic call.
DetCall == ret # None /\ ret.fn = "generate_round_deterministic"

DetReturned == DetCall /\ ret.res.ok

\* How often p and q were on one team, and on opposite teams, in the matches
\* of history.
PriorPartnerships(history, p, q) ==
    Cardinality({k \in 1..Len(history) :
        \E team \in {history[k].team_a_player_ids, history[k].team_b_player_ids} :
            {p, q} \subseteq SeqSet(team)})

PriorOppositions(history, p, q) ==
    Cardinality({k \in 1..Len(history) :
        \E side \in {<<p, q>>, <<q, p>>} :
            /\ side[1] \in SeqSet(history[k].team_a_player_ids)
            /\ side[2] \in SeqSet(history[k].team_b_player_ids)})

\* The within-team and the cross-team pairs of the teams a and b.
WithinPairs(a, b) ==
    {pq \in (SeqSet(a) \X SeqSet(a)) \cup (SeqSet(b) \X SeqSet(b)) : pq[1] # pq[2]}

CrossPairs(a, b) == SeqSet(a) \X SeqSet(b)

\* What each level allows the teams a, b of one match, given the history.
AllowedAt(level, history, a, b) ==
    /\ \A pq \in WithinPairs(a, b) :
          PriorPartnerships(history, pq[1], pq[2])
              < (IF level = ALLOW_REPEATED_PARTNERS THEN 2 ELSE 1)
    /\ \A pq \in CrossPairs(a, b) :
          PriorOppositions(history, pq[1], pq[2]) < (IF level = STRICT THEN 1 ELSE 2)

\* C5: a round returned by generate_round_deterministic at STRICT has no
\* within-team pair that were partners before and no cross-team pair that
\* were opponents before; at ALLOW_REPEATED_OPPONENTS no within-team pair
\* were partners before and every cross-team pair had fewer than 2 earlier
\* oppositions; at ALLOW_REPEATED_PARTNERS every within-team pair has fewer
\* than 2 earlier partnerships and every cross-team pair fewer than 2
\* earlier oppositions.
C5_LevelSemantics ==
    DetReturned =>
        \A i \in 1..Len(ret.res.round.matches) :
            LET m == ret.res.round.matches[i] IN
            AllowedAt(ret.res.level, ret.prior, m.team_a_player_ids, m.team_b_player_ids)

\* A round came back at ALLOW_REPEATED_OPPONENTS with a cross-team pair that
\* had met once before, and one came back at ALLOW_REPEATED_PARTNERS with a
\* within-team pair that had been partners once before.
C5_Witness ==
    /\ DetReturned
    /\ ret.res.level = ALLOW_REPEATED_PARTNERS
    /\ \E i \in 1..Len(ret.res.round.matches) :
          LET m == ret.res.round.matches[i] IN
          /\ \E pq \in WithinPairs(m.team_a_player_ids, m.team_b_player_ids) :
                PriorPartnerships(ret.prior, pq[1], pq[2]) = 1
          /\ \E pq \in CrossPairs(m.team_a_player_ids, m.team_b_player_ids) :
                PriorOppositions(ret.prior, pq[1], pq[2]) = 1

\* There is a choice of pairwise disjoint teams out of the role-valid teams
\* that fills the slots i.. of the requirements with matches allowed at
\* level against the history, none of them using a player of used.
RECURSIVE FillsFrom(_, _, _, _, _, _)
FillsFrom(reqs, valid_teams, level, history, i, used) ==
    \/ i > Len(reqs)
    \/ \E a \in SeqSet(valid_teams[reqs[i][1]]) :
          /\ SeqSet(a) \cap used = {}
          /\ \E b \in SeqSet(valid_teams[reqs[i][2]]) :
                /\ SeqSet(b) \cap (used \cup SeqSet(a)) = {}
                /\ AllowedAt(level, history, a, b)
                /\ FillsFrom(reqs, valid_teams, level, history, i + 1,
                             used \cup SeqSet(a) \cup SeqSet(b))

\* A complete assignment exists at level for the roster of the tournament
\* against the history.
Feasible(level, history) ==
    LET dist == find_optimal_match_distribution(Len(players), mode) IN
    FillsFrom(MatchRequirements(dist[1], dist[2], dist[3]),
              build_all_valid_teams(players, mode), level, history, 1, {})

\* C6: generate_round_deterministic searches the levels in the order STRICT,
\* ALLOW_REPEATED_OPPONENTS, ALLOW_REPEATED_PARTNERS, searches a level only
\* after every stricter level's search failed, stops at the first level
\* whose search succeeds, and the level it returns is the lowest level at
\* which a complete assignment exists.
C6_LowestLevelFirst ==
    (DetCall /\ Len(players) >= 4) =>
        LET searched == ret.res.searched IN
        /\ Len(searched) \in 1..3
        /\ \A k \in 1..Len(searched) : searched[k].level = k - 1
        /\ \A k \in 1..(Len(searched) - 1) : ~searched[k].found
        /\ ret.res.ok <=> searched[Len(searched)].found
        /\ ~ret.res.ok => Len(searched) = 3
        /\ ret.res.ok =>
              /\ ret.res.level = searched[Len(searched)].level
              /\ Feasible(ret.res.level, ret.prior)
              /\ \A l \in 0..(ret.res.level - 1) : ~Feasible(l, ret.prior)

\* A call searched all three levels and returned at the most relaxed one.
C6_Witness ==
    /\ DetReturned
    /\ ret.res.level = ALLOW_REPEATED_PARTNERS
    /\ Len(ret.res.searched) = 3
    /\ ~ret.res.searched[1].found /\ ~ret.res.searched[2].found

\* C7: the search at a level returns a round exactly when pairwise disjoint
\* role-valid teams exist that fill every slot of the distribution with
\* matches valid at that level against the history; so the call raises the
\* infeasibility error only when no such choice exists even at
\* ALLOW_REPEATED_PARTNERS.
C7_SearchComplete ==
    DetCall =>
        /\ \A k \in 1..Len(ret.res.searched) :
              ret.res.searched[k].found
                  <=> Feasible(ret.res.searched[k].level, ret.prior)
        /\ (~ret.res.ok /\ ret.res.error = "infeasible")
              => ~Feasible(ALLOW_REPEATED_PARTNERS, ret.prior)

\* A call with history raised the infeasibility error after an earlier one
\* had found a round only by backtracking out of its first choice.
C7_Witness ==
    /\ DetCall
    /\ ~ret.res.ok /\ ret.res.error = "infeasible"
    /\ Len(ret.prior) > 0
    /\ \E i \in 1..Len(rounds) :
          rounds[i].matches[1].team_a_player_ids[2] > 2

\* C8: with 8 players each eligible for all three roles in DOUBLETTE mode
\* the first 5 successive generate_round_deterministic calls, each given
\* the rounds of the earlier ones, all return a round, of 2 matches.
C8_EightPlayersFiveRounds ==
    (players = AllRoles(8) /\ mode = DOUBLETTE) =>
        \A i \in 1..Len(log) :
            i <= 5 => log[i].ok /\ log[i].matches = 2

\* The fifth call for the 8 players has returned.
C8_Witness ==
    /\ players = AllRoles(8) /\ mode = DOUBLETTE
    /\ Len(log) >= 5
    /\ Len(rounds) >= 5
    /\ log[5].fn = "generate_round_deterministic"

\* C9: over the successful generate_round_deterministic calls of one
\* tournament the level returned never decreases.
C9_LevelNeverDecreases ==
    \A i, j \in 1..Len(log) :
        (i < j /\ log[i].ok /\ log[j].ok) => log[i].level <= log[j].level

\* A tournament whose rounds came back at STRICT, then at
\* ALLOW_REPEATED_OPPONENTS, then at ALLOW_REPEATED_PARTNERS.
C9_Witness ==
    \E i, j, k \in 1..Len(log) :
        /\ i < j /\ j < k
        /\ log[i].ok /\ log[j].ok /\ log[k].ok
        /\ log[i].level = STRICT
        /\ log[j].level = ALLOW_REPEATED_OPPONENTS
        /\ log[k].level = ALLOW_REPEATED_PARTNERS

\* ------------------------------------------- specification: tournaments
\* The thresholds of generate_round's early exit (the score in half points).
good_enough_threshold_x2 == 20
min_attempts_before_early_stop == 100

\* float("inf") as best_score
Inf == -1

\* score <= best_score in place of score < best_score.
MutLessOrEqual(score, best_score) == best_score = Inf \/ score <= best_score

\* score < best_score
LessThan(score, best_score) == best_score = Inf \/ score < best_score

\* Players 1..n: the first two Tireur or Pointeur, the others Pointeur only.
TwoShooters(n) ==
    [i \in 1..n |-> [id |-> i,
                      roles |-> IF i <= 2 THEN {TIREUR, POINTEUR} ELSE {POINTEUR}]]

\* Players 1..n, the odd ones Tireur only, the even ones Pointeur only.
ShooterPointerPairs(n) ==
    [i \in 1..n |-> [id |-> i, roles |-> IF i % 2 = 1 THEN {TIREUR} ELSE {POINTEUR}]]

\* The 12 players of the example: 4 Tireur, 4 Pointeur, 4 Milieu.
Twelve == ExclusiveRoles(12)

\* The rosters of two matches and more, and of a 3v3 match: the callers of
\* this model call generate_round for their opening round only, with a
\* single attempt, and their tournament ends with that round.
OpeningOnly == {TwoShooters(8), ShooterPointerPairs(8), ExclusiveRoles(6), Twelve}

AttemptsFor(plist) == IF plist \in OpeningOnly THEN 1 ELSE MaxAttempts

CanCall ==
    /\ pc = "idle"
    /\ Len(log) < MaxCalls
    /\ players \in OpeningOnly
          => \A i \in 1..Len(log) : log[i].fn # "generate_round"

CanCallGenerateRound ==
    /\ CanCall
    /\ players \in OpeningOnly => Len(log) = 0

\* TournamentScheduler(mode, terrains_count): a fresh scheduler object.
NewScheduler ==
    /\ pc = "idle"
    /\ tracker # <<>>
    /\ tracker' = <<>>
    /\ UNCHANGED <<mode, players, rounds, pc, loop, ret, log, pin, pout, rng>>

\* generate_round(players, round_index, previous_rounds, attempts) up to the
\* attempt loop.
GenerateRoundWith(round_index, previous_rounds, attempts) ==
    /\ pc = "idle"
    /\ LET live == add_rounds(IF round_index = 0 THEN <<>> ELSE tracker, previous_rounds, 1)
       IN
       /\ tracker' = live
       /\ IF Len(players) < 4
          THEN /\ ret' = [fn |-> "generate_round", round_index |-> round_index,
                          prior |-> add_rounds(<<>>, previous_rounds, 1),
                          res |-> [ok |-> FALSE, error |-> "too_few"]]
               /\ log' = Append(log, [fn |-> "generate_round", ok |-> FALSE,
                                      level |-> -1, matches |-> 0])
               /\ UNCHANGED <<pc, loop>>
          ELSE /\ pc' = "generate_round"
               /\ loop' = [round_index |-> round_index,
                           previous |-> add_rounds(<<>>, previous_rounds, 1),
                           attempts |-> attempts,
                           i |-> 0,
                           attempt |-> 0,
                           best_matches |-> [some |-> FALSE],
                           best_score |-> Inf,
                           broke |-> FALSE]
               /\ UNCHANGED <<ret, log>>
    /\ UNCHANGED <<mode, players, rounds, pin, pout, rng>>

\* A page's call: round_index = number of stored rounds, previous_rounds =
\* the stored rounds.
GenerateRoundBegin(attempts) ==
    /\ CanCallGenerateRound
    /\ GenerateRoundWith(Len(rounds), rounds, attempts)

\* temp_tracker when _generate_matches_for_round has returned matches: the
\* previous rounds' matches, then each match of the attempt, which
\* _generate_matches_for_round adds as it makes it.
TempTracker(previous, matches) == previous \o matches

\* score = self._score_matches_with_tracker(matches, temp_tracker) of the
\* attempt that came out as out.matches, in half points.
AttemptScore(lp, out, md) ==
    score_matches_with_tracker(out.matches, TempTracker(lp.previous, out.matches), md)

\* The calls of progress_callback the body makes: (attempt + 1, attempts,
\* best_score) when the attempt's score is below the best so far.
AttemptCallbacks(lp, out, md) ==
    IF ~out.ok THEN <<>>
    ELSE LET score == AttemptScore(lp, out, md) IN
         IF LessThan(score, lp.best_score)
         THEN <<[attempt |-> lp.i + 1, attempts |-> lp.attempts, best_score |-> score]>>
         ELSE <<>>

\* The body of "for attempt in range(attempts)" on the locals lp, when
\* _generate_matches_for_round comes out as out (ok = FALSE: it raised).
AttemptStep(lp, out, md) ==
    LET attempt == lp.i
        next == [lp EXCEPT !.attempt = attempt, !.i = attempt + 1]
    IN
    IF ~out.ok
    THEN next
    ELSE LET score == AttemptScore(lp, out, md)
             better == LessThan(score, lp.best_score)
             stop == \/ score = 0
                     \/ /\ score < good_enough_threshold_x2
                        /\ attempt >= min_attempts_before_early_stop
         IN  [next EXCEPT
                 !.best_score = IF better THEN score ELSE @,
                 !.best_matches = IF better
                                  THEN [some |-> TRUE, val |-> out.matches]
                                  ELSE @,
                 !.broke = stop]

\* One iteration of "for attempt in range(attempts)".
GenerateRoundAttempt ==
    /\ pc = "generate_round"
    /\ ~loop.broke /\ loop.i < loop.attempts
    /\ \E out \in SeqSet(generate_matches_for_round(players, loop.round_index, mode)) :
         loop' = AttemptStep(loop, out, mode)
    /\ UNCHANGED <<mode, players, rounds, tracker, pc, ret, log, pin, pout, rng>>

\* generate_round after the loop; the caller stores the round returned.
GenerateRoundReturn ==
    /\ pc = "generate_round"
    /\ loop.broke \/ loop.i >= loop.attempts
    /\ pc' = "idle"
    /\ loop' = None
    /\ IF ~loop.best_matches.some
       THEN /\ ret' = [fn |-> "generate_round", round_index |-> loop.round_index,
                       prior |-> loop.previous,
                       res |-> [ok |-> FALSE, error |-> "no_round"]]
            /\ log' = Append(log, [fn |-> "generate_round", ok |-> FALSE,
                                   level |-> -1, matches |-> 0])
            /\ UNCHANGED rounds
       ELSE LET best_matches == loop.best_matches.val
                round_obj == NewRound(loop.round_index, best_matches)
            IN  /\ ret' = [fn |-> "generate_round", round_index |-> loop.round_index,
                           prior |-> loop.previous,
                           res |-> [ok |-> TRUE,
                                    round |-> round_obj,
                                    report |-> generate_quality_report(tracker, mode,
                                                                       best_matches),
                                    attempts_used |-> loop.attempt + 1,
                                    tracker |-> tracker]]
                /\ log' = Append(log, [fn |-> "generate_round", ok |-> TRUE,
                                       level |-> -1,
                                       matches |-> Len(best_matches)])
                /\ rounds' = Append(rounds, round_obj)
    /\ UNCHANGED <<mode, players, tracker, pin, pout, rng>>

\* A page's call of generate_round_deterministic within a tournament.
GenerateRoundDeterministicCall == CanCall /\ GenerateRoundDeterministic

Rosters ==
    {AllRoles(3), NoShooter(4), TwoShooters(4), TwoShooters(8),
     ExclusiveRoles(5), ShooterOrPlacer(5), ExclusiveRoles(6),
     ShooterPointerPairs(8)}

Init ==
    /\ mode \in TournamentMode
    /\ players \in Rosters
    /\ rounds = <<>>
    /\ tracker = <<>>
    /\ pc = "idle"
    /\ loop = None
    /\ rng = None
    /\ ret = None
    /\ log = <<>>
    /\ pin = None
    /\ pout = None

Next ==
    \/ NewScheduler
    \/ \E attempts \in 1..AttemptsFor(players) : GenerateRoundBegin(attempts)
    \/ GenerateRoundAttempt
    \/ GenerateRoundReturn
    \/ GenerateRoundDeterministicCall

Spec == Init /\ [][Next]_vars

\* ------------------------------------------ specification: opening rounds
\* The opening round of a tournament, by either scheduler: the rosters of
\* Spec and two rosters of players with all roles in both modes, and the 12
\* players in TRIPLETTE mode.
InitFirst ==
    /\ \/ mode \in TournamentMode /\ players \in Rosters \cup {AllRoles(4), AllRoles(5)}
       \/ mode = TRIPLETTE /\ players = Twelve
    /\ rounds = <<>>
    /\ tracker = <<>>
    /\ pc = "idle"
    /\ loop = None
    /\ rng = None
    /\ ret = None
    /\ log = <<>>
    /\ pin = None
    /\ pout = None

NextFirst ==
    \/ NewScheduler
    \/ Len(log) = 0 /\ \E attempts \in 1..AttemptsFor(players) :
                            GenerateRoundBegin(attempts)
    \/ GenerateRoundAttempt
    \/ GenerateRoundReturn
    \/ Len(log) = 0 /\ GenerateRoundDeterministicCall

SpecFirst == InitFirst /\ [][NextFirst]_vars

\* ------------------------------------------------- properties: rounds
\* The last finished call returned a round.
Returned == ret # None /\ ret.res.ok

\* The ids seated by a list of matches, team after team.
RECURSIVE Seated(_, _)
Seated(matches, i) ==
    IF i > Len(matches) THEN <<>>
    ELSE all_player_ids(matches[i]) \o Seated(matches, i + 1)

CountFormat(matches, format) ==
    Cardinality({i \in 1..Len(matches) : matches[i].format = format})

\* C2: a round returned by generate_round or generate_round_deterministic
\* for n players has exactly n_3v3 TRIPLETTE, n_2v2 DOUBLETTE and n_3v2
\* HYBRID matches of the optimal distribution for n (never fewer), and
\* seats exactly 6*n_3v3 + 4*n_2v2 + 5*n_3v2 distinct players.
C2_RoundHasTheDistribution ==
    Returned =>
        LET dist == find_optimal_match_distribution(Len(players), mode)
            matches == ret.res.round.matches
        IN  /\ CountFormat(matches, TRIPLETTE) = dist[1]
            /\ CountFormat(matches, DOUBLETTE) = dist[2]
            /\ CountFormat(matches, HYBRID) = dist[3]
            /\ Len(matches) = dist[1] + dist[2] + dist[3]
            /\ Cardinality(SeqSet(Seated(matches, 1)))
                  = 6 * dist[1] + 4 * dist[2] + 5 * dist[3]

\* generate_round returned a round of two matches, after attempts that
\* could also end with one match made.
C2_Witness ==
    /\ Returned
    /\ ret.fn = "generate_round"
    /\ Len(ret.res.round.matches) = 2
    /\ Len(players) = 8

\* C3: in a round returned by either scheduler no player id is seated
\* twice, in one match or in two, and every id seated is the id of a
\* supplied player, so no more players are seated than were supplied.
C3_NoPlayerTwice ==
    Returned =>
        LET seated == Seated(ret.res.round.matches, 1) IN
        /\ \A i, j \in 1..Len(seated) : seated[i] = seated[j] => i = j
        /\ SeqSet(seated) \subseteq {players[i].id : i \in 1..Len(players)}
        /\ Len(seated) <= Len(players)

\* Each scheduler returned a round of two matches for 8 players.
C3_Witness ==
    /\ Returned
    /\ ret.fn = "generate_round_deterministic"
    /\ Len(ret.res.round.matches) = 2
    /\ Len(Seated(ret.res.round.matches, 1)) = 8

\* The last finished call had round_index 0 and no previous rounds.
EmptyHistory == ret # None /\ ret.round_index = 0 /\ ret.prior = <<>>

\* C10: with empty history a successful generate_round_deterministic call
\* returns level STRICT; the quality report of a round returned by either
\* scheduler has no repeated partners and no repeated opponents; for the
\* 12 players with 4 exclusive players per role in TRIPLETTE mode the round
\* has exactly 2 matches, both TRIPLETTE, total_score 0 and grade A+.
C10_EmptyHistory ==
    (Returned /\ EmptyHistory) =>
        /\ ret.fn = "generate_round_deterministic" => ret.res.level = STRICT
        /\ ret.res.report.repeated_partners = 0
        /\ ret.res.report.repeated_opponents = 0
        /\ (players = Twelve /\ mode = TRIPLETTE) =>
              /\ Len(ret.res.round.matches) = 2
              /\ CountFormat(ret.res.round.matches, TRIPLETTE) = 2
              /\ ret.res.report.total_score = 0
              /\ quality_grade(ret.res.report) = "A+"

\* generate_round returned the opening round of the 12 players.
C10_Witness ==
    /\ Returned /\ EmptyHistory
    /\ ret.fn = "generate_round"
    /\ players = Twelve /\ mode = TRIPLETTE
    /\ quality_grade(ret.res.report) = "A+"

\* ------------------------------------------- specification: distribution
InitDist ==
    /\ mode \in TournamentMode
    /\ players = <<>>
    /\ rounds = <<>>
    /\ tracker = <<>>
    /\ pc = "idle"
    /\ loop = None
    /\ rng = None
    /\ ret = None
    /\ log = <<>>
    /\ pin \in [fn : {"dist"}, n : 0..MaxPlayers]
    /\ pout = None

ApplyDist ==
    /\ pin # None /\ pout = None
    /\ pin.fn = "dist"
    /\ pout' = [val |-> find_optimal_match_distribution(pin.n, mode)]
    /\ UNCHANGED <<mode, players, rounds, tracker, pc, loop, ret, log, pin, rng>>

NextDist == ApplyDist

SpecDist == InitDist /\ [][NextDist]_vars

\* ---------------------------------------------------------------- C1
\* All triples of match counts that fit n players.
Fitting(n) ==
    {t \in (0..(n \div 6)) \X (0..(n \div 4)) \X (0..(n \div 5)) :
        PlayersUsed(t[1], t[2], t[3]) <= n}

Preferred(md, t) == IF md = TRIPLETTE THEN t[1] ELSE t[2]

\* t is at least as good as u: more seats, then more preferred-format
\* matches, then fewer hybrids.
AtLeastAsGood(md, t, u) ==
    LET st == PlayersUsed(t[1], t[2], t[3])
        su == PlayersUsed(u[1], u[2], u[3])
    IN  \/ st > su
        \/ st = su /\ Preferred(md, t) > Preferred(md, u)
        \/ st = su /\ Preferred(md, t) = Preferred(md, u) /\ t[3] <= u[3]

\* C1: the distribution returned for n players is the one fitting triple
\* that seats the most players, then has the most matches of the mode's
\* preferred format, then the fewest hybrids (any other fitting triple is
\* strictly worse); it is (0,0,0) below 4 players, (1,0,0) for 7 and
\* (1,0,1) for 11.
C1_OptimalDistribution ==
    (pin # None /\ pout # None /\ pin.fn = "dist") =>
      LET pout_ == pout.val IN
        /\ pout_ \in Fitting(pin.n)
        /\ \A u \in Fitting(pin.n) :
              u # pout_ => /\ AtLeastAsGood(mode, pout_, u)
                           /\ ~AtLeastAsGood(mode, u, pout_)
        /\ (pin.n < 4 => pout_ = <<0, 0, 0>>)
        /\ (pin.n = 7 => pout_ = <<1, 0, 0>>)
        /\ (pin.n = 11 => pout_ = <<1, 0, 1>>)

C1_Witness ==
    /\ pin # None /\ pout # None
    /\ pin.fn = "dist" /\ pin.n = 20
    /\ mode = DOUBLETTE /\ pout.val = <<0, 5, 0>>

\* ------------------------------------------ specification: constructing a Match
\* Team lists handed to the constructor: the lists over ids of length
\* 1..MaxTeamLen, in non-decreasing order (the validation reads only the
\* length and the set of a list, so the order of a list is not a case).
RECURSIVE Lists(_, _)
Lists(ids, len) ==
    IF len = 0 THEN {<<>>}
    ELSE {Append(v, x) : v \in Lists(ids, len - 1), x \in ids}

IsSorted(v) == \A i \in 1..(Len(v) - 1) : v[i] <= v[i + 1]

TeamInputs(ids) ==
    UNION {{v \in Lists(ids, len) : IsSorted(v)} : len \in 1..MaxTeamLen}

InitMatch ==
    /\ mode = TRIPLETTE
    /\ players = <<>>
    /\ rounds = <<>>
    /\ tracker = <<>>
    /\ pc = "idle"
    /\ loop = None
    /\ rng = None
    /\ ret = None
    /\ log = <<>>
    /\ pin \in [fn : {"Match"}, round_index : {-1, 0}, format : MatchFormat,
                 team_a : TeamInputs(1..3), team_b : TeamInputs(3..6)]
    /\ pout = None

ApplyMatch ==
    /\ pin # None /\ pout = None
    /\ pin.fn = "Match"
    /\ pout' = NewMatch(pin.round_index, <<0>>, pin.format, pin.team_a, pin.team_b)
    /\ UNCHANGED <<mode, players, rounds, tracker, pc, loop, ret, log, pin, rng>>

NextMatch == ApplyMatch

SpecMatch == InitMatch /\ [][NextMatch]_vars

\* ---------------------------------------------------------------- C4
FormatSizesOk(format, team_a, team_b) ==
    \/ format = TRIPLETTE /\ Len(team_a) = 3 /\ Len(team_b) = 3
    \/ format = DOUBLETTE /\ Len(team_a) = 2 /\ Len(team_b) = 2
    \/ format = HYBRID /\ {Len(team_a), Len(team_b)} = {2, 3}

NoDuplicate(v) == \A i, j \in 1..Len(v) : v[i] = v[j] => i = j

\* C4: constructing a Match fails when the team sizes do not fit the format,
\* when a player is in both teams, or when a team lists a player twice; so a
\* Match that was constructed has none of the three defects.
C4_MatchValidation ==
    (pin # None /\ pout # None /\ pin.fn = "Match") =>
        /\ (\/ ~FormatSizesOk(pin.format, pin.team_a, pin.team_b)
            \/ SeqSet(pin.team_a) \cap SeqSet(pin.team_b) # {}
            \/ ~NoDuplicate(pin.team_a) \/ ~NoDuplicate(pin.team_b))
           => ~pout.ok
        /\ pout.ok =>
              /\ FormatSizesOk(pout.match.format, pout.match.team_a_player_ids,
                               pout.match.team_b_player_ids)
              /\ SeqSet(pout.match.team_a_player_ids)
                    \cap SeqSet(pout.match.team_b_player_ids) = {}
              /\ NoDuplicate(pout.match.team_a_player_ids)
              /\ NoDuplicate(pout.match.team_b_player_ids)

\* A rejected list with a duplicate id in a team of the right size.
C4_Witness ==
    /\ pin # None /\ pout # None
    /\ pin.fn = "Match" /\ pin.format = DOUBLETTE /\ pin.round_index = 0
    /\ pin.team_a = <<1, 1>> /\ pin.team_b = <<4, 5>>
    /\ ~pout.ok

\* -------------------------------------- specification: ConstraintTracker
\* One ConstraintTracker of the tournament mode: add_match calls, and
\* score_match calls on candidate matches.  log keeps the matches handed to
\* add_match, in call order.
TrackerPlayers == 1..6

\* The matches recorded and scored: the three formats, the same pairs in
\* several matches, the same players on the same and on other terrains.
TrackerMatches ==
    {NewMatch(0, get_terrain_label(c[1]), c[2], c[3], c[4]).match : c \in
        {<<0, DOUBLETTE, <<1, 2>>, <<3, 4>>>>,
         <<1, DOUBLETTE, <<2, 1>>, <<4, 3>>>>,
         <<0, TRIPLETTE, <<1, 2, 3>>, <<4, 5, 6>>>>,
         <<1, HYBRID, <<1, 2, 3>>, <<4, 5>>>>,
         <<0, HYBRID, <<4, 5>>, <<1, 2, 6>>>>}}

InitTracker ==
    /\ mode \in TournamentMode
    /\ players = <<>>
    /\ rounds = <<>>
    /\ tracker = <<>>
    /\ pc = "idle"
    /\ loop = None
    /\ rng = None
    /\ ret = None
    /\ log = <<>>
    /\ pin = None
    /\ pout = None

AddMatch ==
    /\ Len(log) < MaxHistory
    /\ \E match \in TrackerMatches :
          /\ tracker' = add_match(tracker, match)
          /\ log' = Append(log, match)
          /\ pin' = [fn |-> "add_match", match |-> match]
    /\ pout' = None
    /\ UNCHANGED <<mode, players, rounds, pc, loop, ret, rng>>

ScoreMatch ==
    /\ \E m \in TrackerMatches :
          /\ pin' = [fn |-> "score_match", team_a |-> m.team_a_player_ids,
                     team_b |-> m.team_b_player_ids, terrain |-> m.terrain_label,
                     match_format |-> m.format]
          /\ pout' = [val |-> score_match(tracker, mode, m.team_a_player_ids,
                                          m.team_b_player_ids, m.terrain_label, m.format)]
    /\ UNCHANGED <<mode, players, rounds, tracker, pc, loop, ret, log, rng>>

NextTracker == AddMatch \/ ScoreMatch

SpecTracker == InitTracker /\ [][NextTracker]_vars

\* --------------------------------------------------------------- C11
Scored == pin # None /\ pout # None /\ pin.fn = "score_match"

\* Recorded history, read from the matches handed to add_match: how often
\* a and b were on one team, how often on opposite teams, and whether p was
\* recorded on a venue.
RecordedPartnerships(a, b) ==
    Cardinality({i \in 1..Len(log) :
        \E team \in {log[i].team_a_player_ids, log[i].team_b_player_ids} :
            \E x, y \in 1..Len(team) : x # y /\ team[x] = a /\ team[y] = b})

RecordedOppositions(a, b) ==
    Cardinality({i \in 1..Len(log) :
        \E x \in 1..Len(log[i].team_a_player_ids), y \in 1..Len(log[i].team_b_player_ids) :
            {log[i].team_a_player_ids[x], log[i].team_b_player_ids[y]} = {a, b} /\ a # b})

RecordedOnVenue(p, venue) ==
    \E i \in 1..Len(log) :
        /\ log[i].terrain_label = venue
        /\ \E x \in 1..Len(all_player_ids(log[i])) : all_player_ids(log[i])[x] = p

\* Half points of one point of the program's score.
ScoreUnit == 2

PartnerTerm(team) ==
    Sum([ij \in PairsOf(team) |->
            ScoreUnit * 10 * RecordedPartnerships(team[ij[1]], team[ij[2]])
                           * RecordedPartnerships(team[ij[1]], team[ij[2]])])

OpponentTerm(team_a, team_b) ==
    Sum([ab \in (1..Len(team_a)) \X (1..Len(team_b)) |->
            ScoreUnit * 5 * RecordedOppositions(team_a[ab[1]], team_b[ab[2]])
                          * RecordedOppositions(team_a[ab[1]], team_b[ab[2]])])

VenueTerm(team_a, team_b, venue) ==
    ScoreUnit * 2 * Cardinality({i \in 1..Len(team_a \o team_b) :
                                    RecordedOnVenue((team_a \o team_b)[i], venue)})

HistoryTerms == PartnerTerm(pin.team_a) + PartnerTerm(pin.team_b)
                + OpponentTerm(pin.team_a, pin.team_b)
                + VenueTerm(pin.team_a, pin.team_b, pin.terrain)

PreferredFormat(md) == IF md = TRIPLETTE THEN TRIPLETTE ELSE DOUBLETTE

C12_FallbackTerm ==
    Scored =>
        pout.val - HistoryTerms =
            IF pin.match_format # PreferredFormat(mode) \/ pin.match_format = HYBRID
            THEN 3 * Len(pin.team_a \o pin.team_b)
            ELSE 0

\* --------------------------------------------------------------- C13
\* Repeats of a round's matches against the matches of history: within-team
\* pairs that were partners, cross-team pairs that were opponents, players
\* who were on the same venue label.
RepeatedPartnerPairs(matches, history) ==
    Sum([i \in 1..Len(matches) |->
        Cardinality({t \in {"a", "b"} \X (1..3) \X (1..3) :
            LET team == IF t[1] = "a" THEN matches[i].team_a_player_ids
                        ELSE matches[i].team_b_player_ids
            IN  /\ t[2] < t[3] /\ t[3] <= Len(team)
                /\ PriorPartnerships(history, team[t[2]], team[t[3]]) > 0})])

RepeatedOpponentPairs(matches, history) ==
    Sum([i \in 1..Len(matches) |->
        Cardinality({pq \in CrossPairs(matches[i].team_a_player_ids,
                                       matches[i].team_b_player_ids) :
            PriorOppositions(history, pq[1], pq[2]) > 0})])

RepeatedVenuePlayers(matches, history) ==
    Sum([i \in 1..Len(matches) |->
        Cardinality({p \in SeqSet(all_player_ids(matches[i])) :
            \E k \in 1..Len(history) :
                /\ history[k].terrain_label = matches[i].terrain_label
                /\ p \in SeqSet(all_player_ids(history[k]))})])

\* The tracker the returned report was scored against: the live tracker of
\* generate_round (left as it was on return), the tracker rebuilt from the
\* previous rounds in generate_round_deterministic.
ScoredAgainst ==
    IF ret.fn = "generate_round" THEN ret.res.tracker ELSE ret.prior

\* C13: on both paths the report of a returned round counts repeats against
\* the previous rounds only (partner pairs, opponent pairs, players on a
\* venue label they already played on), and its total_score is the score of
\* the round's matches against a tracker that holds matches of previous
\* rounds and none of the new round.
C13_ReportAgainstPriorHistory ==
    Returned =>
        LET matches == ret.res.round.matches
            report == ret.res.report
        IN  /\ report.repeated_partners = RepeatedPartnerPairs(matches, ret.prior)
            /\ report.repeated_opponents = RepeatedOpponentPairs(matches, ret.prior)
            /\ report.repeated_terrains = RepeatedVenuePlayers(matches, ret.prior)
            /\ SeqSet(ScoredAgainst) = SeqSet(ret.prior)
            /\ SeqSet(ScoredAgainst) \cap SeqSet(matches) = {}
            /\ report.total_score
                   = score_matches_with_tracker(matches, ScoredAgainst, mode)

\* generate_round on a scheduler that already served a call: the tracker
\* holds the previous round more than once, and the round repeats a pair.
C13_Witness ==
    /\ Returned
    /\ ret.fn = "generate_round"
    /\ Len(ret.prior) > 0
    /\ Len(ret.res.tracker) > Len(ret.prior)
    /\ ret.res.report.repeated_opponents > 0
    /\ ret.res.report.repeated_terrains > 0

\* A second round of generate_round_deterministic that repeats opponents.
C13_WitnessDeterministic ==
    /\ Returned
    /\ ret.fn = "generate_round_deterministic"
    /\ Len(ret.prior) > 0
    /\ ret.res.report.repeated_opponents > 0

\* --------------------------------------------------------------- C14
\* What a tracker answers about the players: its derived dictionaries.
TrackerState(tr, md) ==
    [partners |-> [p \in TrackerPlayers |-> partners(tr, p)],
     opponents |-> [p \in TrackerPlayers |-> opponents(tr, p)],
     terrains |-> [p \in TrackerPlayers |-> terrains(tr, p)],
     fallback_formats |-> [p \in TrackerPlayers |-> fallback_formats(tr, md, p)],
     partner_counts |-> [pq \in TrackerPlayers \X TrackerPlayers |->
                            get_partner_count(tr, pq[1], pq[2])],
     opponent_counts |-> [pq \in TrackerPlayers \X TrackerPlayers |->
                            get_opponent_count(tr, pq[1], pq[2])]]

\* A fresh tracker after add_match on the matches of a list, in its order.
RECURSIVE Replay(_, _)
Replay(matches, n) ==
    IF n = 0 THEN <<>> ELSE add_match(Replay(matches, n - 1), matches[n])

\* The add_match calls made so far, in every order.
Reorderings ==
    {[i \in 1..Len(log) |-> log[f[i]]] : f \in Permutations(1..Len(log))}

\* C14: the state of a tracker and every score_match result are the same
\* for every order of the same add_match calls, and a match added twice
\* counts twice: each pair count is the number of add_match calls, repeated
\* calls included, whose match has the pair.
C14_OrderIndependent ==
    /\ (pin # None /\ pin.fn = "add_match") =>
          /\ \A other \in Reorderings :
                TrackerState(Replay(other, Len(other)), mode) = TrackerState(tracker, mode)
          /\ \A p, q \in TrackerPlayers :
                /\ get_partner_count(tracker, p, q) = RecordedPartnerships(p, q)
                /\ get_opponent_count(tracker, p, q) = RecordedOppositions(p, q)
    /\ Scored =>
          \A other \in Reorderings :
              pout.val = score_match(Replay(other, Len(other)), mode,
                                     pin.team_a, pin.team_b, pin.terrain,
                                     pin.match_format)

\* The same match added twice with another one in between, then a score.
C14_Witness ==
    /\ Scored
    /\ Len(log) = 3
    /\ log[1] = log[3] /\ log[1] # log[2]
    /\ get_partner_count(tracker, 3, 4) = 2 * PriorPartnerships(<<log[1]>>, 3, 4)
    /\ get_partner_count(tracker, 3, 4) > 0
    /\ pout.val > 0

\* ------------------------------------ specification: seeded schedulers
\* Two schedulers a caller constructs with the same seed and mode, each for
\* one generate_round call on the same players, round_index, previous rounds
\* and attempts.  TournamentScheduler.__init__ seeds the generator of the
\* random module, which all schedulers share; rng.drawn counts the attempts
\* whose shuffles were drawn since the generator was last seeded.
\* pin.stream is what the generator yields once seeded with pin.seed: entry k
\* tells which way the shuffles of the k-th attempt drawn after seeding fall
\* (the position of the outcome among those of _generate_matches_for_round).
\* pc, tracker and ret hold one entry per scheduler.
Schedulers == {"first", "second"}

SeededRosters == {TwoShooters(4), ExclusiveRoles(4)}

\* The attempts argument: more than one attempt only where the shuffles of
\* an attempt can fall in at most two ways.
SeededAttempts(plist, md) ==
    IF Len(generate_matches_for_round(plist, 0, md)) <= 2 THEN 1..MaxAttempts ELSE {1}

\* The previous rounds of the call: none, or one stored round.
SeededPrevious(plist, md) ==
    {<<>>} \cup LET r == generate_round_deterministic(plist, 0, <<>>, md)
                IN  IF r.ok THEN {<<r.round>>} ELSE {}

InitSeeded ==
    /\ mode \in TournamentMode
    /\ players \in SeededRosters
    /\ rounds \in SeededPrevious(players, mode)
    /\ tracker = [o \in Schedulers |-> <<>>]
    /\ pc = [o \in Schedulers |-> "absent"]
    /\ loop = None
    /\ rng = None
    /\ ret = [o \in Schedulers |-> None]
    /\ log = <<>>
    /\ \E attempts \in SeededAttempts(players, mode) :
          pin \in [fn : {"generate_round"}, seed : {42}, attempts : {attempts},
                   stream : [1..(2 * attempts) ->
                       1..Len(generate_matches_for_round(players, Len(rounds), mode))]]
    /\ pout = None

\* scheduler = TournamentScheduler(mode, terrains_count, seed)
NewSeededScheduler(o) ==
    /\ pc[o] = "absent"
    /\ pc' = [pc EXCEPT ![o] = "ready"]
    /\ tracker' = [tracker EXCEPT ![o] = <<>>]
    /\ rng' = [seed |-> pin.seed, drawn |-> 0]
    /\ log' = Append(log, [fn |-> "TournamentScheduler", scheduler |-> o])
    /\ UNCHANGED <<mode, players, rounds, loop, ret, pin, pout>>

\* The attempt loop from the locals lp on, the generator having drawn for
\* `drawn` attempts: the locals and the count when the loop is left.
RECURSIVE RunAttempts(_, _, _, _, _)
RunAttempts(lp, outs, stream, drawn, md) ==
    IF lp.broke \/ lp.i >= lp.attempts
    THEN [loop |-> lp, drawn |-> drawn]
    ELSE RunAttempts(AttemptStep(lp, outs[stream[drawn + 1]], md),
                     outs, stream, drawn + 1, md)

\* scheduler.generate_round(players, round_index, previous_rounds, attempts),
\* the whole call: it runs to its end before anything else does.
SeededGenerateRound(o) ==
    /\ pc[o] = "ready"
    /\ rng # None
    /\ LET round_index == Len(rounds)
           live == add_rounds(IF round_index = 0 THEN <<>> ELSE tracker[o], rounds, 1)
           lp0 == [round_index |-> round_index,
                   previous |-> add_rounds(<<>>, rounds, 1),
                   attempts |-> pin.attempts,
                   i |-> 0,
                   attempt |-> 0,
                   best_matches |-> [some |-> FALSE],
                   best_score |-> Inf,
                   broke |-> FALSE]
           run == RunAttempts(lp0, generate_matches_for_round(players, round_index, mode),
                              pin.stream, rng.drawn, mode)
       IN  /\ tracker' = [tracker EXCEPT ![o] = live]
           /\ rng' = [rng EXCEPT !.drawn = run.drawn]
           /\ ret' = [ret EXCEPT ![o] =
                  IF ~run.loop.best_matches.some
                  THEN [ok |-> FALSE, error |-> "no_round"]
                  ELSE [ok |-> TRUE,
                        round |-> NewRound(round_index, run.loop.best_matches.val),
                        report |-> generate_quality_report(live, mode,
                                                           run.loop.best_matches.val),
                        attempts_used |-> run.loop.attempt + 1]]
    /\ pc' = [pc EXCEPT ![o] = "done"]
    /\ log' = Append(log, [fn |-> "generate_round", scheduler |-> o])
    /\ UNCHANGED <<mode, players, rounds, loop, pin, pout>>

NextSeeded ==
    \E o \in Schedulers : NewSeededScheduler(o) \/ SeededGenerateRound(o)

SpecSeeded == InitSeeded /\ [][NextSeeded]_vars

\* --------------------------------------------------------------- C15
\* C15: two freshly constructed schedulers with the same seed and mode that
\* each made one generate_round call on the same players, round_index,
\* previous rounds and attempts returned the same round (same matches, teams
\* and venue labels, in the same order) and the same attempts_used.
C15_SameSeedSameRound ==
    (\A o \in Schedulers : pc[o] = "done") => ret["first"] = ret["second"]

\* Each scheduler called right after its construction, nothing else drawing
\* from the generator in between: then the two calls return the same.
C15_CalledRightAfterConstruction ==
    (/\ \A o \in Schedulers : pc[o] = "done"
     /\ \E o \in Schedulers :
           <<log[1].fn, log[2].fn, log[3].fn, log[4].fn>>
               = <<"TournamentScheduler", "generate_round",
                   "TournamentScheduler", "generate_round">>)
    => ret["first"] = ret["second"]

\* ------------------------------- specification: calls with any arguments
\* Generation calls whose round_index and previous_rounds are any index and
\* any prefix of the stored rounds, on rosters of 0 to 4 players: the
\* stored rounds are those of an earlier roster of five.  The roster of
\* four is there for contrast and is called once.
CallRosters ==
    {<<>>, AllRoles(1), AllRoles(2), AllRoles(3), ExclusiveRoles(3), TwoShooters(4)}

\* Up to two rounds played by five players.
StoredRounds(md) ==
    LET first == generate_round_deterministic(AllRoles(5), 0, <<>>, md)
        second == generate_round_deterministic(AllRoles(5), 1, <<first.round>>, md)
    IN  {<<>>} \cup (IF first.ok THEN {<<first.round>>} ELSE {})
               \cup (IF first.ok /\ second.ok THEN {<<first.round, second.round>>} ELSE {})

InitCalls ==
    /\ mode \in TournamentMode
    /\ players \in CallRosters
    /\ rounds \in StoredRounds(mode)
    /\ tracker = <<>>
    /\ pc = "idle"
    /\ loop = None
    /\ rng = None
    /\ ret = None
    /\ log = <<>>
    /\ pin = None
    /\ pout = None

CanCallWith ==
    /\ Len(log) < MaxCalls
    /\ Len(players) >= 4 => Len(log) = 0

NextCalls ==
    \/ NewScheduler
    \/ \E round_index \in 0..MaxCalls, k \in 0..Len(rounds), attempts \in 1..MaxAttempts :
          /\ CanCallWith
          /\ GenerateRoundWith(round_index, SubSeq(rounds, 1, k), attempts)
    \/ GenerateRoundAttempt
    \/ GenerateRoundReturn
    \/ \E round_index \in 0..MaxCalls, k \in 0..Len(rounds) :
          /\ CanCallWith
          /\ GenerateRoundDeterministicWith(round_index, SubSeq(rounds, 1, k))

SpecCalls == InitCalls /\ [][NextCalls]_vars

\* --------------------------------------------------------------- C16
\* C16: with fewer than 4 players, generate_round and
\* generate_round_deterministic fail with the error about the player count
\* and return no round, whatever round_index and previous rounds they get:
\* no call enters the attempt loop and no round is added to the stored ones
\* (which all seat five players).
C16_TooFewPlayers ==
    Len(players) < 4 =>
        /\ pc = "idle"
        /\ \A i \in 1..Len(rounds) : Len(Seated(rounds[i].matches, 1)) = 5
        /\ \A i \in 1..Len(log) : ~log[i].ok
        /\ ret # None => ~ret.res.ok /\ ret.res.error = "too_few"

\* Three players, a call for round 2 with previous rounds.
C16_Witness ==
    /\ Len(players) = 3
    /\ ret # None
    /\ ret.fn = "generate_round"
    /\ ret.round_index = 2
    /\ Len(ret.prior) > 0
    /\ ~ret.res.ok
    /\ Len(log) = 2 /\ log[1].fn = "generate_round_deterministic"

\* ------------------------------------------- specification: match scores
\* One Round object and its Match objects, as the results page and the
\* tests handle them: matches are constructed with or without scores, a
\* score field is assigned, the page saves or clears both scores and hands
\* the match to storage.update_match, and is_complete is read.
\* A score is None or [val |-> n].  rounds holds the one Round; ret holds
\* the Match update_match returned; pout holds what is_complete answered.
max_score == 13

Score(n) == [val |-> n]

\* Field(default=None, ge=0, le=13) of score_a and score_b.
ScoreFieldOk(score) == score = None \/ (score.val >= 0 /\ score.val <= max_score)

\* Match(..., score_a=..., score_b=...): the fields the scheduler reads, the
\* id and the two scores.
NewScoredMatch(id, round_index, terrain_label, format, team_a, team_b, score_a, score_b) ==
    LET m == NewMatch(round_index, terrain_label, format, team_a, team_b) IN
    IF ~m.ok \/ ~ScoreFieldOk(score_a) \/ ~ScoreFieldOk(score_b)
    THEN [ok |-> FALSE]
    ELSE [ok |-> TRUE,
          match |-> [id |-> id,
                     round_index |-> m.match.round_index,
                     terrain_label |-> m.match.terrain_label,
                     format |-> m.match.format,
                     team_a_player_ids |-> m.match.team_a_player_ids,
                     team_b_player_ids |-> m.match.team_b_player_ids,
                     score_a |-> score_a,
                     score_b |-> score_b]]

\* Match.is_complete
Match_is_complete(match) == match.score_a # None /\ match.score_b # None

\* Round.is_complete without its test for an empty list of matches.
MutRoundCompleteWhenEmpty(round) ==
    \A i \in 1..Len(round.matches) : Match_is_complete(round.matches[i])

\* Round.is_complete
Round_is_complete(round) ==
    IF round.matches # <<>>
    THEN \A i \in 1..Len(round.matches) : Match_is_complete(round.matches[i])
    ELSE FALSE

\* Scores handed to the constructor (two of them outside 0..13) and scores
\* assigned to a field.
ConstructorScores == {None, Score(-1), Score(0), Score(max_score), Score(max_score + 1)}

AssignedScores == {None, Score(0), Score(max_score)}

InitScores ==
    /\ mode = DOUBLETTE
    /\ players = <<>>
    /\ rounds = <<NewRound(0, <<>>)>>
    /\ tracker = <<>>
    /\ pc = "idle"
    /\ loop = None
    /\ rng = None
    /\ ret = None
    /\ log = <<>>
    /\ pin = None
    /\ pout = None

\* A Match is constructed and becomes the next match of the round.
ConstructMatch ==
    /\ Len(rounds[1].matches) < MaxMatches
    /\ \E score_a, score_b \in ConstructorScores :
          LET i == Len(rounds[1].matches)
              m == NewScoredMatch(i + 1, 0, get_terrain_label(i), DOUBLETTE,
                                  <<4 * i + 1, 4 * i + 2>>, <<4 * i + 3, 4 * i + 4>>,
                                  score_a, score_b)
          IN  /\ pin' = [fn |-> "Match", score_a |-> score_a, score_b |-> score_b,
                         ok |-> m.ok]
              /\ rounds' = IF m.ok
                           THEN <<[rounds[1] EXCEPT !.matches = Append(@, m.match)]>>
                           ELSE rounds
    /\ pout' = None
    /\ UNCHANGED <<mode, players, tracker, pc, loop, ret, log, rng>>

\* match.score_a = score  /  match.score_b = score
AssignScore ==
    /\ \E i \in 1..Len(rounds[1].matches), field \in {"score_a", "score_b"},
          score \in AssignedScores :
          /\ rounds' = <<[rounds[1] EXCEPT !.matches[i][field] = score]>>
          /\ pin' = [fn |-> "assign", match |-> i, field |-> field]
    /\ pout' = None
    /\ UNCHANGED <<mode, players, tracker, pc, loop, ret, log, rng>>

\* JSONStorage.update_match(match): the stored scores become the match's,
\* and the Match built from the stored record is returned.
update_match(match) ==
    NewScoredMatch(match.id, match.round_index, match.terrain_label, match.format,
                   match.team_a_player_ids, match.team_b_player_ids,
                   match.score_a, match.score_b)

UpdateMatch ==
    /\ \E i \in 1..Len(rounds[1].matches) :
          /\ ret' = [fn |-> "update_match", res |-> update_match(rounds[1].matches[i])]
          /\ pin' = [fn |-> "update_match", match |-> i]
    /\ pout' = None
    /\ UNCHANGED <<mode, players, rounds, tracker, pc, loop, log, rng>>

\* "Save Score" of the results page: both scores, then update_match.
SaveScore ==
    /\ \E i \in 1..Len(rounds[1].matches), score_a, score_b \in AssignedScores \ {None} :
          LET match == [rounds[1].matches[i] EXCEPT !.score_a = score_a,
                                                    !.score_b = score_b]
          IN  /\ rounds' = <<[rounds[1] EXCEPT !.matches[i] = match]>>
              /\ ret' = [fn |-> "update_match", res |-> update_match(match)]
              /\ pin' = [fn |-> "save", match |-> i]
    /\ pout' = None
    /\ UNCHANGED <<mode, players, tracker, pc, loop, log, rng>>

\* "Clear Score" of the results page, offered for a complete match.
ClearScore ==
    /\ \E i \in 1..Len(rounds[1].matches) :
          /\ Match_is_complete(rounds[1].matches[i])
          /\ LET match == [rounds[1].matches[i] EXCEPT !.score_a = None, !.score_b = None]
             IN  /\ rounds' = <<[rounds[1] EXCEPT !.matches[i] = match]>>
                 /\ ret' = [fn |-> "update_match", res |-> update_match(match)]
                 /\ pin' = [fn |-> "clear", match |-> i]
    /\ pout' = None
    /\ UNCHANGED <<mode, players, tracker, pc, loop, log, rng>>

\* round.is_complete and match.is_complete of every match are read.
ReadIsComplete ==
    /\ pout' = [fn |-> "is_complete",
                round |-> Round_is_complete(rounds[1]),
                matches |-> [i \in 1..Len(rounds[1].matches) |->
                                Match_is_complete(rounds[1].matches[i])]]
    /\ UNCHANGED <<mode, players, rounds, tracker, pc, loop, ret, log, pin, rng>>

NextScores ==
    ConstructMatch \/ AssignScore \/ UpdateMatch \/ SaveScore \/ ClearScore \/ ReadIsComplete

SpecScores == InitScores /\ [][NextScores]_vars

\* ------------------------------------------------------------ claim C17
IsCompleteRead == pout # None /\ pout.fn = "is_complete"

BothScoresSet(match) == match.score_a # None /\ match.score_b # None

EveryMatchHasBothScores == \A i \in 1..Len(rounds[1].matches) : BothScoresSet(rounds[1].matches[i])

MatchAnswersRight ==
    /\ DOMAIN pout.matches = 1..Len(rounds[1].matches)
    /\ \A i \in 1..Len(rounds[1].matches) :
          pout.matches[i] = BothScoresSet(rounds[1].matches[i])

\* C17 as stated: Round.is_complete is true if and only if every match of
\* the round has both scores set, a round with no matches included, and
\* Match.is_complete is true if and only if both scores are set.
C17_CompleteIffEveryMatchComplete ==
    IsCompleteRead => /\ pout.round = EveryMatchHasBothScores
                      /\ MatchAnswersRight

\* C17: Round.is_complete is true if and only if the round has at least one
\* match and every match of it has both scores set, so a round with no
\* matches is not complete; Match.is_complete is true if and only if both
\* score_a and score_b are set.
C17_CompleteIffNonEmptyAndEveryMatchComplete ==
    IsCompleteRead => /\ pout.round = (Len(rounds[1].matches) > 0 /\ EveryMatchHasBothScores)
                      /\ MatchAnswersRight

C17_Witness ==
    /\ IsCompleteRead
    /\ Len(rounds[1].matches) = MaxMatches
    /\ rounds[1].matches[1].score_a = Score(max_score)
    /\ rounds[1].matches[2].score_b = Score(0)
    /\ pout.round = TRUE
    /\ pout.matches[2] = TRUE

\* ------------------------------------------------------------ claim C18
ExactlyOneScoreSet(match) == (match.score_a = None) # (match.score_b = None)

\* C18: the two scores of a Match are both present or both absent: no
\* constructed Match, no Match after an assignment to score_a or score_b,
\* and no Match returned by update_match has exactly one of them set.
C18_ScoresBothOrNeither ==
    /\ \A i \in 1..Len(rounds[1].matches) : ~ExactlyOneScoreSet(rounds[1].matches[i])
    /\ (ret # None /\ ret.fn = "update_match" /\ ret.res.ok) => ~ExactlyOneScoreSet(ret.res.match)

\* What does hold: the page's Save and Clear leave the match they act on,
\* and the Match update_match returns for it, with both scores or with none.
C18_SaveAndClearKeepPair ==
    (pin # None /\ pin.fn \in {"save", "clear"}) =>
        /\ ~ExactlyOneScoreSet(rounds[1].matches[pin.match])
        /\ ret.res.ok /\ ~ExactlyOneScoreSet(ret.res.match)

\* ------------------------------------------ specification: venue labels
\* One call of get_terrain_label or generate_terrain_labels, with an index
\* or a count on either side of its range, and the first round of a
\* tournament made by the backtracking scheduler, which labels its matches.
TerrainIndexes == -2..703

TerrainCounts == -1..704

LabelCalls ==
    {[fn |-> "get_terrain_label", index |-> index] : index \in TerrainIndexes}
    \cup {[fn |-> "generate_terrain_labels", count |-> count] : count \in TerrainCounts}

InitLabels ==
    /\ mode = DOUBLETTE
    /\ players = AllRoles(MaxRoster)
    /\ rounds = <<>>
    /\ tracker = <<>>
    /\ pc = "idle"
    /\ loop = None
    /\ rng = None
    /\ ret = None
    /\ log = <<>>
    /\ pin \in LabelCalls
    /\ pout = None

GetTerrainLabel ==
    /\ pin.fn = "get_terrain_label"
    /\ pout = None
    /\ pout' = [val |-> get_terrain_label(pin.index)]
    /\ UNCHANGED <<mode, players, rounds, tracker, pc, loop, ret, log, pin, rng>>

GenerateTerrainLabels ==
    /\ pin.fn = "generate_terrain_labels"
    /\ pout = None
    /\ pout' = generate_terrain_labels(pin.count)
    /\ UNCHANGED <<mode, players, rounds, tracker, pc, loop, ret, log, pin, rng>>

GenerateFirstRound ==
    /\ rounds = <<>>
    /\ GenerateRoundDeterministicWith(0, <<>>)

NextLabels == GetTerrainLabel \/ GenerateTerrainLabels \/ GenerateFirstRound

SpecLabels == InitLabels /\ [][NextLabels]_vars

\* ------------------------------------------------------------ claim C19
Letters == 0..25

\* label is the index-th of A, B, ..., Z, AA, AB, ..., ZZ.
IsLabelOf(label, index) ==
    \/ /\ index \in 0..25
       /\ label = <<index>>
    \/ /\ index \in 26..701
       /\ Len(label) = 2
       /\ label[1] \in Letters /\ label[2] \in Letters
       /\ 26 * label[1] + label[2] = index - 26

LabelAsked == pin.fn = "get_terrain_label" /\ pout # None

LabelsAsked == pin.fn = "generate_terrain_labels" /\ pout # None

\* C19: get_terrain_label(i) is the single letter A..Z for i = 0..25 and
\* the double letter AA..ZZ for i = 26..701, no other index in 0..701 has
\* the same label, generate_terrain_labels(n)[i] is the same label for
\* every 0 <= i < n <= 702, an index below 0 or above 701 is an error, and
\* the matches of a generated round carry the labels 0, 1, 2, ... in
\* order, so that no two of them have the same venue label.
C19_TerrainLabels ==
    /\ LabelAsked =>
          IF pin.index \in 0..701
          THEN /\ IsLabelOf(pout.val, pin.index)
               /\ \A j \in 0..701 : j # pin.index => get_terrain_label(j) # pout.val
          ELSE pout.val = <<>>
    /\ LabelsAsked =>
          /\ pout.ok = (pin.count \in 1..702)
          /\ pout.ok => /\ Len(pout.labels) = pin.count
                        /\ \A i \in 0..(pin.count - 1) :
                              /\ pout.labels[i + 1] = get_terrain_label(i)
                              /\ IsLabelOf(pout.labels[i + 1], i)
    /\ \A r \in 1..Len(rounds) :
          /\ \A i \in 1..Len(rounds[r].matches) :
                IsLabelOf(rounds[r].matches[i].terrain_label, i - 1)
          /\ \A i, j \in 1..Len(rounds[r].matches) :
                i # j => rounds[r].matches[i].terrain_label # rounds[r].matches[j].terrain_label

C19_Witness ==
    /\ LabelAsked
    /\ pin.index = 701
    /\ pout.val = <<25, 25>>
    /\ Len(rounds) = 1
    /\ Len(rounds[1].matches) >= 2
    /\ rounds[1].matches[2].terrain_label = <<1>>

C19_WitnessList ==
    /\ LabelsAsked
    /\ pin.count = 702
    /\ pout.ok
    /\ pout.labels[27] = <<0, 0>>
    /\ pout.labels[702] = <<25, 25>>

\* ------------------------------------- specification: role requirements
\* calculate_role_requirements without the hybrid matches in the team
\* totals.
MutRoleRequirementsWithoutHybrids(md, player_count) ==
    LET dist == find_optimal_match_distribution(player_count, md)
        triplette_teams == dist[1] * 2
        doublette_teams == dist[2] * 2
    IN  [mode |-> md,
         total_players |-> player_count,
         tireur_needed |-> doublette_teams + triplette_teams,
         pointeur_needed |-> doublette_teams + triplette_teams,
         milieu_needed |-> triplette_teams,
         triplette_count |-> dist[1],
         doublette_count |-> dist[2],
         hybrid_count |-> dist[3]]

\* calculate_role_requirements(mode, player_count)
calculate_role_requirements(md, player_count) ==
    LET dist == find_optimal_match_distribution(player_count, md)
        nb_3v3 == dist[1]
        nb_2v2 == dist[2]
        nb_3v2 == dist[3]
        triplette_teams == nb_3v3 * 2
        doublette_teams == nb_2v2 * 2
        total_triplette_teams == triplette_teams + nb_3v2
        total_doublette_teams == doublette_teams + nb_3v2
    IN  [mode |-> md,
         total_players |-> player_count,
         tireur_needed |-> total_doublette_teams + total_triplette_teams,
         pointeur_needed |-> total_doublette_teams + total_triplette_teams,
         milieu_needed |-> total_triplette_teams,
         triplette_count |-> nb_3v3,
         doublette_count |-> nb_2v2,
         hybrid_count |-> nb_3v2]

InitRoles ==
    /\ mode \in TournamentMode
    /\ players = <<>>
    /\ rounds = <<>>
    /\ tracker = <<>>
    /\ pc = "idle"
    /\ loop = None
    /\ rng = None
    /\ ret = None
    /\ log = <<>>
    /\ pin \in [fn : {"calculate_role_requirements"}, player_count : 0..MaxPlayers]
    /\ pout = None

ApplyRoles ==
    /\ pout = None
    /\ pout' = [val |-> calculate_role_requirements(mode, pin.player_count)]
    /\ UNCHANGED <<mode, players, rounds, tracker, pc, loop, ret, log, pin, rng>>

NextRoles == ApplyRoles

SpecRoles == InitRoles /\ [][NextRoles]_vars

AttemptRosters == {TwoShooters(4), ExclusiveRoles(4), AllRoles(3)}

\* The previous rounds: none, or one or two rounds the backtracking
\* scheduler made for the roster.
AttemptPrevious(plist, md) ==
    LET first == generate_round_deterministic(plist, 0, <<>>, md)
        second == IF first.ok
                  THEN generate_round_deterministic(plist, 1, <<first.round>>, md)
                  ELSE first
    IN  {<<>>} \cup (IF first.ok THEN {<<first.round>>} ELSE {})
               \cup (IF second.ok THEN {<<first.round, second.round>>} ELSE {})

InitAttempts ==
    /\ mode \in TournamentMode
    /\ players \in AttemptRosters
    /\ rounds \in AttemptPrevious(players, mode)
    /\ tracker = <<>>
    /\ pc = "idle"
    /\ loop = None
    /\ rng = None
    /\ ret = None
    /\ log = <<>>
    /\ pin = <<>>
    /\ pout = <<>>

GenerateRoundOnce ==
    /\ ret = None
    /\ \E attempts \in 0..MaxAttempts :
          GenerateRoundWith(Len(rounds), rounds, attempts)

\* One iteration of the attempt loop, with what it came to and the calls
\* of progress_callback it made.
GenerateRoundAttemptObserved ==
    /\ pc = "generate_round"
    /\ ~loop.broke /\ loop.i < loop.attempts
    /\ \E out \in SeqSet(generate_matches_for_round(players, loop.round_index, mode)) :
         /\ loop' = AttemptStep(loop, out, mode)
         /\ pin' = Append(pin, IF out.ok
                               THEN [ok |-> TRUE, matches |-> out.matches,
                                     score |-> AttemptScore(loop, out, mode)]
                               ELSE [ok |-> FALSE])
         /\ pout' = pout \o AttemptCallbacks(loop, out, mode)
    /\ UNCHANGED <<mode, players, rounds, tracker, pc, ret, log, rng>>

NextAttempts == GenerateRoundOnce \/ GenerateRoundAttemptObserved \/ GenerateRoundReturn

SpecAttempts == InitAttempts /\ [][NextAttempts]_vars

\* ------------------------------------------------------------ claim C21
\* The matches of the previous rounds of the one generate_round call.
AttemptHistory ==
    IF pc = "generate_round" THEN loop.previous
    ELSE IF ret # None THEN ret.prior ELSE <<>>

AttemptsReturned == ret # None /\ ret.res.ok

\* C21: every complete candidate round of generate_round is scored against
\* the matches of the previous rounds only, its own matches counting as no
\* prior partnership, opposition or venue visit: the score of an attempt is
\* the sum of score_match over its matches against the prior history, and
\* on the fresh scheduler the score of the selected attempt is the
\* total_score of the returned quality report.
C21_ScoredAgainstPriorOnly ==
    /\ \A i \in 1..Len(pin) :
          pin[i].ok => pin[i].score
                          = score_matches_with_tracker(pin[i].matches, AttemptHistory, mode)
    /\ AttemptsReturned =>
          \A i \in 1..Len(pin) :
              (pin[i].ok /\ pin[i].matches = ret.res.round.matches)
                  => pin[i].score = ret.res.report.total_score

\* ------------------------------------------------------------ claim C22
\* No repeated partner, opponent or venue relative to history, and every
\* match in the preferred format of the mode.
PerfectRound(matches, history) ==
    /\ RepeatedPartnerPairs(matches, history) = 0
    /\ RepeatedOpponentPairs(matches, history) = 0
    /\ RepeatedVenuePlayers(matches, history) = 0
    /\ \A k \in 1..Len(matches) : matches[k].format = PreferredFormat(mode)

\* C22: generate_round stops right after the first attempt that yields a
\* complete round with a perfect score: when attempt i produces a round
\* with no repeated partner, opponent or venue relative to the previous
\* rounds and no fallback format, no further attempt is executed and
\* attempts_used is i; so round 0 with empty history, whose first attempt
\* completes in the preferred format, returns attempts_used = 1.
C22_StopsAtPerfectAttempt ==
    \A i \in 1..Len(pin) :
        (pin[i].ok /\ PerfectRound(pin[i].matches, AttemptHistory)) =>
            /\ Len(pin) = i
            /\ AttemptsReturned => ret.res.attempts_used = i

\* ------------------------------------------------------------ claim C23
\* The executed attempts that completed, and the first of them with the
\* lowest score.
CompleteAttempts == {i \in 1..Len(pin) : pin[i].ok}

IsSelected(i) ==
    /\ i \in CompleteAttempts
    /\ \A j \in CompleteAttempts : pin[i].score <= pin[j].score
    /\ \A j \in CompleteAttempts : j < i => pin[j].score > pin[i].score

\* Attempt i scored below every complete attempt before it.
Improves(i) ==
    /\ i \in CompleteAttempts
    /\ \A j \in CompleteAttempts : j < i => pin[i].score < pin[j].score

CallDone == ret # None /\ pc = "idle" /\ Len(players) >= 4

\* C23: generate_round returns the complete attempt with the lowest score
\* among the attempts executed, the earliest one among equals; an attempt
\* that fails is skipped and the loop goes on; progress_callback is called
\* for the attempts that score strictly below every earlier one and for no
\* other, so its best_score values strictly decrease and its attempt
\* numbers strictly increase; the call fails when no attempt completed.
C23_BestAttemptReturned ==
    /\ CallDone =>
          /\ ret.res.ok = (CompleteAttempts # {})
          /\ ret.res.ok => \E i \in 1..Len(pin) :
                               IsSelected(i) /\ ret.res.round.matches = pin[i].matches
          /\ ~ret.res.ok => ret.res.error = "no_round"
    /\ Len(pout) = Cardinality({i \in 1..Len(pin) : Improves(i)})
    /\ \A k \in 1..Len(pout) :
          /\ pout[k].attempt \in 1..Len(pin)
          /\ Improves(pout[k].attempt)
          /\ pout[k].best_score = pin[pout[k].attempt].score
    /\ \A k \in 1..(Len(pout) - 1) :
          /\ pout[k].attempt < pout[k + 1].attempt
          /\ pout[k].best_score > pout[k + 1].best_score

\* The second attempt beat the first and was returned, after a stored round.
C23_Witness ==
    /\ CallDone /\ ret.res.ok
    /\ ret.prior # <<>>
    /\ Len(pin) = 2
    /\ pin[1].ok /\ pin[2].ok
    /\ pin[2].score < pin[1].score
    /\ ret.res.round.matches = pin[2].matches
    /\ Len(pout) = 2

\* A failed attempt came before the one that was returned.
C23_WitnessAfterFailure ==
    /\ CallDone /\ ret.res.ok
    /\ Len(pin) = 2
    /\ ~pin[1].ok /\ pin[2].ok
    /\ Len(pout) = 1 /\ pout[1].attempt = 2

\* ------------------------------------------------------------ claim C24
\* How often match occurs in the list tr.
Occurrences(tr, match) == Cardinality({k \in 1..Len(tr) : tr[k] = match})

\* C24: after a successful generate_round call, as after a successful
\* generate_round_deterministic call, the matches of the returned round
\* have been appended to the scheduler's live tracker, which then holds the
\* matches of the previous rounds and the matches of the returned round.
C24_RoundAppendedToLiveTracker ==
    Returned =>
        /\ \A m \in SeqSet(ret.prior) : Occurrences(ret.res.tracker, m) >= 1
        /\ \A m \in SeqSet(ret.res.round.matches) : Occurrences(ret.res.tracker, m) = 1

\* What does hold: generate_round_deterministic leaves the live tracker
\* with the previous rounds' matches followed by the returned round's.
C24_DeterministicAppends ==
    DetReturned => ret.res.tracker = ret.prior \o ret.res.round.matches

\* ------------------------------------------------------------ claim C25
\* C25: whatever calls the scheduler served before and whatever the
\* round_index, when generate_round computes its quality report the live
\* tracker holds each match of previous_rounds exactly once, and the
\* total_score reported is the one a fresh scheduler reports for the same
\* round: the score of its matches against the previous rounds.
C25_NoStateCarriedOver ==
    (Returned /\ ret.fn = "generate_round") =>
        /\ \A m \in SeqSet(ret.prior) : Occurrences(ret.res.tracker, m) = 1
        /\ SeqSet(ret.res.tracker) \subseteq SeqSet(ret.prior)
        /\ ret.res.report.total_score
               = score_matches_with_tracker(ret.res.round.matches, ret.prior, mode)

\* What does hold: a call with round_index 0, and a call on a scheduler
\* that served no call before, report against each previous match once.
C25_FreshOrFirstRound ==
    (Returned /\ ret.fn = "generate_round" /\ (ret.round_index = 0 \/ Len(log) = 1)) =>
        /\ \A m \in SeqSet(ret.prior) : Occurrences(ret.res.tracker, m) = 1
        /\ ret.res.report.total_score
               = score_matches_with_tracker(ret.res.round.matches, ret.prior, mode)

\* ------------------------------------------------ specification: teams
\* One call of _form_team, on a scheduler whose _players_by_role was built
\* from the roster and with some of the roster still available, or one
\* call of validate_team_roles on a combination of the roster's players as
\* _build_all_valid_teams enumerates them.  The players of a roster are
\* Tireur only, Milieu only, or hold all three roles.
TeamRosters ==
    [1..MaxPool -> {{TIREUR}, {MILIEU}, PlayerRole}]

TeamCalls ==
    {[fn |-> "_form_team", available |-> a, team_size |-> n, match_format |-> f] :
        a \in {x \in SUBSET (1..MaxPool) : Cardinality(x) >= 2},
        n \in {2, 3}, f \in {TRIPLETTE, DOUBLETTE}}
    \cup {[fn |-> "validate_team_roles", combo |-> c, match_format |-> f] :
            c \in SeqSet(Combinations2([i \in 1..MaxPool |-> i]))
                  \cup SeqSet(Combinations3([i \in 1..MaxPool |-> i])),
            f \in {TRIPLETTE, DOUBLETTE}}

InitTeams ==
    /\ mode \in TournamentMode
    /\ \E roles \in TeamRosters :
          players = [i \in 1..MaxPool |-> [id |-> i, roles |-> roles[i]]]
    /\ rounds = <<>>
    /\ tracker = <<>>
    /\ pc = "idle"
    /\ loop = None
    /\ rng = None
    /\ ret = None
    /\ log = <<>>
    /\ pin \in TeamCalls
    /\ pout = None

\* self._form_team(available_players, team_size, match_format), however the
\* shuffles fall.
FormTeam ==
    /\ pin.fn = "_form_team"
    /\ pout = None
    /\ \E team \in SeqSet(form_team(players, pin.available, pin.team_size,
                                    pin.match_format, mode)) :
          pout' = team
    /\ UNCHANGED <<mode, players, rounds, tracker, pc, loop, ret, log, pin, rng>>

\* validate_team_roles(team, match_format, self.mode)
ValidateTeamRoles ==
    /\ pin.fn = "validate_team_roles"
    /\ pout = None
    /\ pout' = [val |-> validate_team_roles(TeamPlayers(players, pin.combo),
                                            pin.match_format, mode)]
    /\ UNCHANGED <<mode, players, rounds, tracker, pc, loop, ret, log, pin, rng>>

NextTeams == FormTeam \/ ValidateTeamRoles

SpecTeams == InitTeams /\ [][NextTeams]_vars

\* ------------------------------------------------------------ claim C26
\* The role slots of a team of the given size: each slot is the set of
\* roles one of which its player must hold.
RoleSlots(team_size, md) ==
    IF team_size = 3
    THEN IF md = TRIPLETTE
         THEN <<{TIREUR}, {POINTEUR}, {MILIEU}>>
         ELSE <<{TIREUR}, {POINTEUR, MILIEU}, {POINTEUR, MILIEU}>>
    ELSE <<{TIREUR}, {POINTEUR, MILIEU}>>

RolesOf(id) == players[id].roles

TeamFormed == pin.fn = "_form_team" /\ pout # None

\* C26: _form_team returns no team, or a complete team of exactly team_size
\* different players of the available pool whose i-th player holds a role
\* of the i-th slot (Tireur, Pointeur, Milieu for a full-size team in
\* TRIPLETTE mode; Tireur, then Pointeur or Milieu twice for a full-size
\* team in DOUBLETTE mode; Tireur, then Pointeur or Milieu for a reduced
\* team); it never returns a team with a slot left open.
C26_FormTeamCompleteOrNone ==
    (TeamFormed /\ pout.ok) =>
        /\ Len(pout.team) = pin.team_size
        /\ \A i, j \in 1..Len(pout.team) : i # j => pout.team[i] # pout.team[j]
        /\ SeqSet(pout.team) \subseteq pin.available
        /\ Len(pout.team) = Len(RoleSlots(pin.team_size, mode))
        /\ \A i \in 1..Len(pout.team) :
              RolesOf(pout.team[i]) \cap RoleSlots(pin.team_size, mode)[i] # {}

\* A full-size team in DOUBLETTE mode whose third player is Milieu only.
C26_Witness ==
    /\ TeamFormed /\ pout.ok
    /\ mode = DOUBLETTE
    /\ pin.team_size = 3
    /\ Len(pout.team) = 3
    /\ RolesOf(pout.team[3]) = {MILIEU}
    /\ RolesOf(pout.team[1]) = PlayerRole

\* No team: the pool has players enough, but no Tireur among them.
C26_WitnessNone ==
    /\ TeamFormed /\ ~pout.ok
    /\ Cardinality(pin.available) >= pin.team_size
    /\ \A id \in pin.available : TIREUR \notin RolesOf(id)

\* ------------------------------------------------------------ claim C29
\* The players of team can take the slots, one different player per slot.
Coverable(team, slots) ==
    /\ Len(team) = Len(slots)
    /\ \E f \in [1..Len(slots) -> 1..Len(team)] :
          /\ \A i, j \in 1..Len(slots) : i # j => f[i] # f[j]
          /\ \A i \in 1..Len(slots) : RolesOf(team[f[i]]) \cap slots[i] # {}

TeamValidated == pin.fn = "validate_team_roles" /\ pout # None

\* C29: the two paths agree on the teams that are role-eligible: a team
\* validate_team_roles accepts can fill the role slots of _form_team with
\* one different player per slot (so a 3-player team in TRIPLETTE mode is
\* accepted only if Tireur, Pointeur and Milieu can be covered by three
\* different players), and a team _form_team returns is accepted by
\* validate_team_roles.
C29_PathsAgreeOnTeams ==
    /\ (TeamValidated /\ pout.val) =>
          Coverable(pin.combo, RoleSlots(Len(pin.combo), mode))
    /\ (TeamFormed /\ pout.ok) =>
          validate_team_roles(TeamPlayers(players, pout.team), pin.match_format, mode)

\* What does hold: every team _form_team returns is accepted, every
\* coverable team is accepted, and outside TRIPLETTE mode with three
\* players every accepted team is coverable.
C29_AgreementExceptTripletteTeams ==
    /\ (TeamFormed /\ pout.ok) =>
          validate_team_roles(TeamPlayers(players, pout.team), pin.match_format, mode)
    /\ TeamValidated =>
          /\ (Len(pin.combo) = (IF pin.match_format = TRIPLETTE THEN 3 ELSE 2)
                /\ Coverable(pin.combo, RoleSlots(Len(pin.combo), mode))) => pout.val
          /\ (pout.val /\ ~(mode = TRIPLETTE /\ Len(pin.combo) = 3)) =>
                Coverable(pin.combo, RoleSlots(Len(pin.combo), mode))

\* ------------------------------------- specification: backtracking search
\* One call of _backtrack_recursive, as _backtrack_find_matches makes it
\* (match_index 1, nothing used) or as the body of the loops makes it after
\* a first match (match_index 2), for a roster of 4 or of MaxRoster players
\* with all roles or of MaxRoster players with one role each, after each
\* number of rounds the backtracking scheduler can make for it in
\* MaxRounds + 1 calls.  pin holds the arguments, st the state on entry;
\* pout the state on return.
\* The rounds of the first n generate_round_deterministic calls for plist.
RECURSIVE PlayedRounds(_, _, _)
PlayedRounds(plist, md, n) ==
    IF n = 0 THEN <<>>
    ELSE LET before == PlayedRounds(plist, md, n - 1)
             r == generate_round_deterministic(plist, Len(before), before, md)
         IN  IF r.ok THEN Append(before, r.round) ELSE before

\* The arguments of the call: those of the search for the next round at a
\* level, and the state on entry.
SearchCalls(plist, md, previous_rounds) ==
    LET dist == find_optimal_match_distribution(Len(plist), md)
        live == add_rounds(<<>>, previous_rounds, 1)
        teams == build_all_valid_teams(plist, md)
        reqs == MatchRequirements(dist[1], dist[2], dist[3])
        env(level) == [match_requirements |-> reqs, all_valid_teams |-> teams,
                       round_index |-> Len(previous_rounds), constraint_level |-> level]
        st0 == [used_players |-> {}, matches |-> <<>>, temp_tracker |-> live,
                found |-> FALSE, raised |-> FALSE, result |-> <<>>]
        first(team_a, team_b) ==
            NewMatch(Len(previous_rounds), get_terrain_label(0),
                     IF reqs[1][1] = reqs[1][2] THEN reqs[1][1] ELSE HYBRID,
                     team_a, team_b).match
    IN  {[fn |-> "_backtrack_recursive", env |-> env(level), match_index |-> 1, st |-> st0] :
            level \in SeqSet(LevelOrder)}
        \cup
        {[fn |-> "_backtrack_recursive", env |-> env(c[1]), match_index |-> 2,
          st |-> [st0 EXCEPT !.used_players = SeqSet(c[2]) \cup SeqSet(c[3]),
                             !.matches = <<first(c[2], c[3])>>,
                             !.temp_tracker =
                                 add_match_to_temp_tracker(live, first(c[2], c[3]))]] :
            c \in {x \in SeqSet(LevelOrder) \X SeqSet(teams[reqs[1][1]])
                                           \X SeqSet(teams[reqs[1][2]]) :
                     /\ SeqSet(x[2]) \cap SeqSet(x[3]) = {}
                     /\ is_match_valid_with_tracker(x[2], x[3], x[1], live)}}

InitSearch ==
    /\ mode \in TournamentMode
    /\ players \in {AllRoles(4), AllRoles(MaxRoster), ExclusiveRoles(MaxRoster)}
    /\ \E n \in 0..(MaxRounds + 1) : rounds = PlayedRounds(players, mode, n)
    /\ tracker = add_rounds(<<>>, rounds, 1)
    /\ pc = "idle"
    /\ loop = None
    /\ rng = None
    /\ ret = None
    /\ log = <<>>
    /\ pin \in SearchCalls(players, mode, rounds)
    /\ pout = None

BacktrackRecursive ==
    /\ pout = None
    /\ pout' = backtrack_recursive(pin.env, pin.match_index, pin.st)
    /\ UNCHANGED <<mode, players, rounds, tracker, pc, loop, ret, log, pin, rng>>

NextSearch == BacktrackRecursive

SpecSearch == InitSearch /\ [][NextSearch]_vars

\* ------------------------------------------------------------ claim C27
\* The matches of the list tr as a multiset.
AsBag(tr) == [m \in SeqSet(tr) |-> Cardinality({k \in 1..Len(tr) : tr[k] = m})]

SearchReturned == pout # None

\* C27: when a call of _backtrack_recursive returns None, the set of used
\* players, the list of chosen matches and the multiset of the scratch
\* tracker's matches are what they were when the call was entered, and the
\* scheduler's live tracker still holds the matches of previous_rounds,
\* whatever the call returned.
C27_UndoIsExact ==
    SearchReturned =>
        /\ ~pout.found =>
              /\ pout.used_players = pin.st.used_players
              /\ pout.matches = pin.st.matches
              /\ AsBag(pout.temp_tracker) = AsBag(pin.st.temp_tracker)
        /\ tracker = add_rounds(<<>>, rounds, 1)

\* A search from the top that came back with None after it had placed and
\* taken back first matches, on a roster of two matches a round.
C27_Witness ==
    /\ SearchReturned /\ ~pout.found
    /\ pin.match_index = 1
    /\ Len(pin.env.match_requirements) = 2
    /\ \E c \in SearchCalls(players, mode, rounds) :
          c.match_index = 2 /\ c.env = pin.env

\* A nested call that came back with None.
C27_WitnessNested ==
    /\ SearchReturned /\ ~pout.found
    /\ pin.match_index = 2
    /\ Len(pin.st.matches) = 1

\* The same frame on the whole call: a generate_round_deterministic call
\* that failed at all three levels leaves the live tracker with the matches
\* of previous_rounds (under SpecDet).
C27_FailedCallKeepsLiveTracker ==
    (DetCall /\ ~ret.res.ok) => tracker = ret.prior

C27_WitnessFailedCall ==
    /\ DetCall /\ ~ret.res.ok
    /\ ret.prior # <<>>

\* ------------------------------------------------------------ claim C28
\* The matches of all rounds generated so far.
Generated == add_rounds(<<>>, rounds, 1)

PlayerIds == {players[i].id : i \in 1..Len(players)}

\* C28: in a tournament made of generate_round_deterministic calls that
\* each receive the rounds returned so far, after every call no two players
\* have been partners more than 2 times and no two players have been
\* opponents more than 2 times over all the rounds generated.
C28_PairsMeetAtMostTwice ==
    \A p \in PlayerIds : \A q \in PlayerIds \ {p} :
        /\ PriorPartnerships(Generated, p, q) <= 2
        /\ PriorOppositions(Generated, p, q) <= 2

\* A successful call gave two players their second opposition.
C28_Witness ==
    /\ DetReturned
    /\ \E p \in PlayerIds : \E q \in PlayerIds \ {p} :
          /\ PriorOppositions(ret.prior, p, q) = 1
          /\ PriorOppositions(Generated, p, q) = 2

\* A successful call gave two players their second partnership.
C28_WitnessPartners ==
    /\ DetReturned
    /\ \E p \in PlayerIds : \E q \in PlayerIds \ {p} :
          /\ PriorPartnerships(ret.prior, p, q) = 1
          /\ PriorPartnerships(Generated, p, q) = 2

\* ------------------------------------------------------------ claim C30
\* C30: the level generate_round_deterministic returns shows in its quality
\* report: at STRICT the report has no repeated partners and no repeated
\* opponents; at ALLOW_REPEATED_OPPONENTS it has no repeated partners and at
\* least one repeated opponent pair; at ALLOW_REPEATED_PARTNERS it has at
\* least one repeated partner pair.
C30_LevelShowsInReport ==
    DetReturned =>
        LET report == ret.res.report
            level == ret.res.level
        IN  /\ level = STRICT =>
                  report.repeated_partners = 0 /\ report.repeated_opponents = 0
            /\ level = ALLOW_REPEATED_OPPONENTS =>
                  report.repeated_partners = 0 /\ report.repeated_opponents >= 1
            /\ level = ALLOW_REPEATED_PARTNERS =>
                  report.repeated_partners >= 1

\* A round came back at ALLOW_REPEATED_PARTNERS after earlier rounds.
C30_Witness ==
    /\ DetReturned
    /\ ret.res.level = ALLOW_REPEATED_PARTNERS
    /\ ret.prior # <<>>
    /\ ret.res.report.repeated_partners >= 1

\* A round came back at ALLOW_REPEATED_OPPONENTS, and one at STRICT after
\* earlier rounds.
C30_WitnessOpponents ==
    /\ DetReturned
    /\ ret.res.level = ALLOW_REPEATED_OPPONENTS
    /\ ret.res.report.repeated_opponents >= 1

C30_WitnessStrict ==
    /\ DetReturned
    /\ ret.res.level = STRICT
    /\ ret.prior # <<>>

====
